---- MODULE Spec2Model ----
(***************************************************************************)
(* Model of the superpage DMA streaming pipeline of rorc-dma-bench        *)
(* (src/src/CommandLineUtilities/ProgramDmaBench.cxx).                     *)
(*                                                                         *)
(* Three concurrent tasks of ProgramDmaBench::dmaLoop (the push thread,    *)
(* the readout loop on the main thread and the low priority thread), the   *)
(* card's superpage queue and the controller steps that follow dmaLoop in  *)
(* ProgramDmaBench::run.  Every access to state shared between threads is  *)
(* a step of its own; steps on thread-local state are merged into the      *)
(* shared access that precedes or follows them.                            *)
(*                                                                         *)
(* Specifications:                                                         *)
(*   Spec, TaskFairSpec, FairSpec  the pipeline of dmaLoop, which abstracts *)
(*                 from page contents;                                     *)
(*   ConfigSpec    run() from its entry to the call of dmaLoop;            *)
(*   QueueSpec     the free queue and the readout queue on their own;      *)
(*   VerifySpec    readoutPage and the error checks on page contents;      *)
(*   ErrorLogSpec  readoutPage over a long run of pages with mismatches;   *)
(*   PageSpec      the steps of readoutPage over the pages of a superpage, *)
(*                 with the low priority thread running.                   *)
(***************************************************************************)
EXTENDS Integers, Sequences, FiniteSets, TLC

(***************************************************************************)
(* Bounds of the model.                                                    *)
(***************************************************************************)
\* Number of superpages the buffer holds (mBufferSize / mSuperpageSize).
NumSuperpages == 3
\* Number of pages in a superpage (mSuperpageSize / mPageSize).
PagesPerSuperpage == 2
\* Largest value of the --pages option that is explored (the smallest is -1;
\* -1 and 0 both ask for an unbounded run).
MaxPagesOption == 5
\* Number of superpage descriptors the card's queue holds.
ChannelQueueCapacity == 2
\* In unbounded mode (--pages <= 0) the push thread is stalled once
\* mPushCount has reached this many pages.
MaxCount == 6
\* 32-bit words in a page given to the verifier.
PageSize32 == 10
\* Pages the verifier is followed over.
MaxPagesRead == 2
\* Characters in a --buffer-size option.
MaxBufferSizeLen == 4
\* Largest --superpage-size option, in MiB.
MaxSuperpageSizeMiB == 3
\* Pages of the run that fills the error log.
MaxLoggedPages == 1002

\* Program constants.
MAX_RECORDED_ERRORS == 1000
PATTERN_STRIDE == 8

(***************************************************************************)
(* Sizes, in units of one DMA page.                                        *)
(***************************************************************************)
mPageSize == 1
mSuperpageSize == PagesPerSuperpage * mPageSize
mBufferSize == NumSuperpages * mSuperpageSize

indexToOffset(i) == i * mSuperpageSize
maxSuperpages == mBufferSize \div mSuperpageSize
pagesPerSuperpage == mSuperpageSize \div mPageSize

Offsets == { indexToOffset(i) : i \in 0 .. maxSuperpages - 1 }
None == -1

GeneratorPattern == { "Incremental", "Alternating", "Constant", "Random" }

VARIABLES
  maxPages,          \* mOptions.maxPages
  generatorPattern,  \* mOptions.generatorPattern
  noErrorCheck,      \* mOptions.noErrorCheck
  mDmaLoopBreak,     \* the shared stop flag
  sigInt,            \* Program::isSigInt()
  freeQueue,         \* folly::ProducerConsumerQueue freeQueue, oldest first
  readoutQueue,      \* folly::ProducerConsumerQueue readoutQueue, oldest first
  hwQueue,           \* the card's superpage queue: offsets, oldest first
  hwSubmitted,       \* how many of hwQueue were handed to the firmware
  received,          \* per offset: Superpage::received of its descriptor
  pushPc,            \* position of the push thread
  superpage,         \* push thread: Superpage superpage (its offset)
  mPushCount,
  rdPc,              \* position of the readout loop
  offset,            \* readout loop: size_t offset
  i,                 \* readout loop: index of the page loop
  exception,         \* message of the exception that left the readout loop
  mReadoutCount,
  monPc,             \* position of the low priority thread
  ctlPc,             \* position of ProgramDmaBench::run around dmaLoop
  popped,            \* freeExcessPages: int popped
  fileOutputAscii,   \* mOptions.fileOutputAscii
  fileOutputBin,     \* mOptions.fileOutputBin
  bufferSizeString,  \* mOptions.bufferSizeString, a sequence of characters
  superpageSizeMiB,  \* mOptions.superpageSizeMiB
  resetChannel,      \* mOptions.resetChannel
  hugePageSize,      \* mOptions.hugePageSize
  bufferSizeMiB,     \* mBufferSize as run() computes it, in MiB
  channelCalls,      \* the calls run() has made on the card so far, in order
  mCardType,         \* mCardType
  noResyncCounter,   \* mOptions.noResyncCounter
  verbose,           \* Program::isVerbose()
  mDataGeneratorCounter,
  mErrorCount,
  errorLines,        \* number of lines written to mErrorStream
  lastErrorLine,     \* the line written to mErrorStream last
  page,              \* the page readoutPage was called on last
  checked,           \* what checkErrors found on that page
  lastWrite,         \* the last write to a queue and what it returned
  pageReset,         \* mOptions.pageReset
  mReadoutStream,    \* what printToFile wrote to the dump file
  statusLine         \* the status line updateStatusDisplay printed last

vars == << maxPages, generatorPattern, noErrorCheck, mDmaLoopBreak, sigInt,
           freeQueue, readoutQueue, hwQueue, hwSubmitted, received,
           pushPc, superpage, mPushCount, rdPc, offset, i, exception,
           mReadoutCount, monPc, ctlPc, popped,
           fileOutputAscii, fileOutputBin, bufferSizeString, superpageSizeMiB,
           resetChannel, hugePageSize, bufferSizeMiB, channelCalls,
           mCardType, noResyncCounter, verbose, mDataGeneratorCounter,
           mErrorCount, errorLines, lastErrorLine, page, checked, lastWrite,
           pageReset, mReadoutStream, statusLine >>

optionVars == << maxPages, generatorPattern, noErrorCheck >>
pushVars == << pushPc, superpage, mPushCount >>
readoutVars == << rdPc, offset, i, exception, mReadoutCount >>
channelVars == << hwQueue, hwSubmitted, received >>
configVars == << fileOutputAscii, fileOutputBin, bufferSizeString,
                 superpageSizeMiB, resetChannel, hugePageSize, bufferSizeMiB >>
verifierVars == << mCardType, noResyncCounter, verbose, mDataGeneratorCounter,
                   mErrorCount, errorLines, lastErrorLine, page, checked >>
pageVars == << pageReset, mReadoutStream, statusLine >>
\* What the steps of dmaLoop and of the drain pass leave alone.
\* What the steps of dmaLoop and of the drain pass leave alone.
extraVars == << configVars, channelCalls, verifierVars, lastWrite, pageVars >>

(***************************************************************************)
(* folly::ProducerConsumerQueue<size_t>: a queue constructed with size n   *)
(* holds at most n - 1 elements; write fails on a full queue, read fails   *)
(* on an empty one, and neither changes the queue when it fails.           *)
(***************************************************************************)
QueueSize == maxSuperpages + 1
QueueIsFull(q) == Len(q) >= QueueSize - 1
QueueIsEmpty(q) == Len(q) = 0
\* Faulty variant: the element is stored whether or not the queue is full.
QueueWrite_NoFullCheck(q, v) == Append(q, v)
QueueWrite(q, v) == IF QueueIsFull(q) THEN q ELSE Append(q, v)
QueueRead(q) == IF QueueIsEmpty(q) THEN q ELSE Tail(q)

NoWrite == [queue |-> "none", value |-> None, ok |-> TRUE, before |-> << >>]

RECURSIVE FillFreeQueue(_, _)
FillFreeQueue(q, n) ==
  IF n = maxSuperpages THEN q
  ELSE FillFreeQueue(QueueWrite(q, indexToOffset(n)), n + 1)

(***************************************************************************)
(* The card's superpage queue (ChannelMasterInterface).                    *)
(***************************************************************************)
getSuperpageQueueCount == Len(hwQueue)
getSuperpageQueueAvailable == ChannelQueueCapacity - Len(hwQueue)
getSuperpage == Head(hwQueue)
isFilled(o) == received[o] >= mSuperpageSize

mInfinitePages == maxPages <= 0
isStopDma == mDmaLoopBreak

\* readoutPage throws when error checking meets a pattern that neither
\* checkErrorsCru nor checkErrorsCrorc supports.
readoutPageThrows == ~noErrorCheck /\ generatorPattern = "Random"

(***************************************************************************)
(* The buffer size option.  A size_t holding a number of bytes is kept as  *)
(* a number of MiB: MiB(n) is n * 2^20 bytes, WrappedMiB(n) is the 64-bit  *)
(* value 2^64 - n * 2^20 that unsigned arithmetic leaves for a negative    *)
(* input.                                                                  *)
(***************************************************************************)
MiB(n) == [wrapped |-> FALSE, mib |-> n]
WrappedMiB(n) == [wrapped |-> TRUE, mib |-> n]
NoSize == [wrapped |-> FALSE, mib |-> -1]

DecimalDigits == << "0", "1", "2", "3", "4", "5", "6", "7", "8", "9" >>
IsDigit(c) == \E k \in 1 .. Len(DecimalDigits) : DecimalDigits[k] = c
DigitValue(c) == (CHOOSE k \in 1 .. Len(DecimalDigits) : DecimalDigits[k] = c) - 1

RECURSIVE Decimal(_)
Decimal(s) ==
  IF s = << >> THEN 0
  ELSE (Decimal(SubSeq(s, 1, Len(s) - 1)) * 10) + DigitValue(s[Len(s)])

\* boost::lexical_cast<size_t>: an optional sign, then digits only.  A
\* negative number is converted as the unsigned type converts it, so "-n"
\* gives 2^64 - n: [neg |-> TRUE, mag |-> n].  Anything else is
\* bad_lexical_cast.  The inputs explored stay far below 2^64.
lexical_cast(s) ==
  LET signed == s # << >> /\ Head(s) = "-"
      digits == IF signed THEN Tail(s) ELSE s
  IN IF digits = << >> \/ \E k \in 1 .. Len(digits) : ~IsDigit(digits[k])
       THEN [bad |-> TRUE, neg |-> FALSE, mag |-> 0]
       ELSE [bad |-> FALSE, neg |-> signed /\ Decimal(digits) > 0,
             mag |-> Decimal(digits)]

Rejected(message) == [error |-> message, hugePageSize |-> "none", size |-> NoSize]

\* run(): "Parse buffer size", with the sizes it assigns on success.
ParseBufferSize(input) ==
  IF Len(input) < 3 THEN Rejected("Invalid buffer size given")
  ELSE
    LET unit == SubSeq(input, Len(input) - 1, Len(input))
        value == lexical_cast(SubSeq(input, 1, Len(input) - 2))
    IN IF value.bad THEN Rejected("Invalid buffer size argument")
       ELSE IF unit = << "M", "B" >> THEN
         \* value = max(2, value); mBufferSize = (value - value % 2) MiB
         LET atLeast2 == IF value.neg \/ value.mag >= 2 THEN value.mag ELSE 2
         IN [error |-> "none", hugePageSize |-> "SIZE_2MB",
             size |-> IF value.neg THEN WrappedMiB(atLeast2 + (atLeast2 % 2))
                      ELSE MiB(atLeast2 - (atLeast2 % 2))]
       ELSE IF unit = << "G", "B" >> THEN
         [error |-> "none", hugePageSize |-> "SIZE_1GB",
          size |-> IF value.neg THEN WrappedMiB(value.mag * 1024)
                   ELSE MiB(value.mag * 1024)]
       ELSE Rejected("Invalid buffer size unit given")

\* mBufferSize < mSuperpageSize
BufferSmallerThanSuperpage(size, superpageMiB) ==
  ~size.wrapped /\ size.mib < superpageMiB

(***************************************************************************)
(* Data error checking.  A page is a function from word index to 32-bit    *)
(* word, a word the pair << high half, low half >> of 16-bit numbers.      *)
(***************************************************************************)
TwoTo16 == 65536
TwoTo24 == 256 * TwoTo16
U32(n) == << (n \div TwoTo16) % TwoTo16, n % TwoTo16 >>
U32Value(w) == (w[1] * TwoTo16) + w[2]
pageSize32 == PageSize32
CardType == { "Crorc", "Cru" }

getEventNumber(pg) == pg[0]

\* The lambda getDataGeneratorCounterFromPage of readoutPage.
getDataGeneratorCounterFromPage(pg) ==
  IF mCardType = "Crorc" THEN U32Value(getEventNumber(pg))
  ELSE (getEventNumber(pg)[1] * 256) + (getEventNumber(pg)[2] \div 256)

\* Faulty variant: counter * 256 + i, the index is not divided by the stride.
CruIncremental_NoStride(counter, idx) ==
  LET c24 == counter % TwoTo24
      low == ((c24 % 256) * 256) + idx
  IN << ((c24 \div 256) + (low \div TwoTo16)) % TwoTo16, low % TwoTo16 >>

\* uint32_t arithmetic of checkErrorsCru: counter * 256 + i / 8
CruIncremental(counter, idx) ==
  LET c24 == counter % TwoTo24
      low == ((c24 % 256) * 256) + (idx \div PATTERN_STRIDE)
  IN << ((c24 \div 256) + (low \div TwoTo16)) % TwoTo16, low % TwoTo16 >>

Alternating == << 42405, 42405 >>      \* 0xa5a5a5a5
Constant == << 4660, 22136 >>          \* 0x12345678

\* The patternFunction each check is called with.
patternFunction(cardType, pattern, counter, idx) ==
  IF pattern = "Alternating" THEN Alternating
  ELSE IF pattern = "Constant" THEN Constant
  ELSE IF cardType = "Cru" THEN CruIncremental(counter, idx)
  ELSE U32(idx - 1)

ErrorLine(eventNumber, idx, counter, expectedValue, actualValue) ==
  [event |-> eventNumber, i |-> idx, cnt |-> counter,
   exp |-> expectedValue, val |-> actualValue]

\* Faulty variant: the line is written however many errors were counted.
addError_NoCap(st, eventNumber, idx, counter, expectedValue, actualValue) ==
  LET count == st.mErrorCount + 1
  IN IF verbose
       THEN [mErrorCount |-> count, errorLines |-> st.errorLines + 1,
             lastErrorLine |->
               ErrorLine(eventNumber, idx, counter, expectedValue, actualValue)]
       ELSE [st EXCEPT !.mErrorCount = count]

\* st holds mErrorCount and what mErrorStream has received.
addError(st, eventNumber, idx, counter, expectedValue, actualValue) ==
  LET count == st.mErrorCount + 1
  IN IF verbose /\ count < MAX_RECORDED_ERRORS
       THEN [mErrorCount |-> count, errorLines |-> st.errorLines + 1,
             lastErrorLine |->
               ErrorLine(eventNumber, idx, counter, expectedValue, actualValue)]
       ELSE [st EXCEPT !.mErrorCount = count]

Mismatches(pg, indices, pattern, cardType, counter) ==
  { idx \in indices : pg[idx] # patternFunction(cardType, pattern, counter, idx) }
Least(S) == CHOOSE x \in S : \A y \in S : x <= y

SupportedPattern == { "Incremental", "Alternating", "Constant" }
StrideIndices == { idx \in 0 .. pageSize32 - 1 : idx % PATTERN_STRIDE = 0 }
DataIndices == 8 .. pageSize32 - 1

Checked(thrown, hasError, st) == [thrown |-> thrown, hasError |-> hasError, st |-> st]

\* Faulty variant: the loop goes on after a mismatch and counts every one.
checkErrorsCru_NoReturn(st, pg, eventNumber, counter) ==
  IF generatorPattern \notin SupportedPattern THEN Checked(TRUE, FALSE, st)
  ELSE
    LET wrong == Mismatches(pg, StrideIndices, generatorPattern, "Cru", counter)
    IN IF wrong = { } THEN Checked(FALSE, FALSE, st)
       ELSE Checked(FALSE, TRUE,
              [st EXCEPT !.mErrorCount = st.mErrorCount + Cardinality(wrong)])

\* checkErrorsCru: the first stride index whose word differs from the
\* pattern is counted and, in verbose mode below the cap, written out.
checkErrorsCru(st, pg, eventNumber, counter) ==
  IF generatorPattern \notin SupportedPattern THEN Checked(TRUE, FALSE, st)
  ELSE
    LET wrong == Mismatches(pg, StrideIndices, generatorPattern, "Cru", counter)
        idx == Least(wrong)
        count == st.mErrorCount + 1
    IN IF wrong = { } THEN Checked(FALSE, FALSE, st)
       ELSE Checked(FALSE, TRUE,
              IF verbose /\ count < MAX_RECORDED_ERRORS
                THEN [mErrorCount |-> count, errorLines |-> st.errorLines + 1,
                      lastErrorLine |->
                        ErrorLine(eventNumber, idx, counter,
                          patternFunction("Cru", generatorPattern, counter, idx),
                          pg[idx])]
                ELSE [st EXCEPT !.mErrorCount = count])

\* checkErrorsCrorc: the header word is compared with the counter, then the
\* data words with the pattern up to the first that differs.
checkErrorsCrorc(st, pg, eventNumber, counter) ==
  IF generatorPattern \notin SupportedPattern THEN Checked(TRUE, FALSE, st)
  ELSE
    LET header == IF pg[0] # U32(counter)
                    THEN addError(st, eventNumber, 0, counter, U32(counter), pg[0])
                    ELSE st
        wrong == Mismatches(pg, DataIndices, generatorPattern, "Crorc", counter)
        idx == Least(wrong)
    IN IF wrong = { } THEN Checked(FALSE, FALSE, header)
       ELSE Checked(FALSE, TRUE,
              addError(header, eventNumber, idx, counter,
                patternFunction("Crorc", generatorPattern, counter, idx), pg[idx]))

checkErrors(st, pg, eventNumber, counter) ==
  IF mCardType = "Cru" THEN checkErrorsCru(st, pg, eventNumber, counter)
  ELSE checkErrorsCrorc(st, pg, eventNumber, counter)

\* Faulty variant: the counter is resynchronised even with noResyncCounter.
NextGeneratorCounter_AlwaysResync(counter, hasError, pg) ==
  (IF hasError THEN getDataGeneratorCounterFromPage(pg) ELSE counter) + 1

\* readoutPage: the resynchronisation and mDataGeneratorCounter++.
NextGeneratorCounter(counter, hasError, pg) ==
  (IF hasError /\ ~noResyncCounter
     THEN getDataGeneratorCounterFromPage(pg) ELSE counter) + 1

\* No status line was printed yet.
NoStatus == [pushCount |-> -1, readoutCount |-> -1, errors |-> -1]

\* --page-reset is off, nothing was written to the dump file or the console.
StreamsIdle ==
  /\ pageReset = FALSE
  /\ mReadoutStream = << >>
  /\ statusLine = NoStatus

NoCheck ==
  [done |-> FALSE, thrown |-> FALSE, hasError |-> FALSE, counter |-> -1,
   eventNumber |-> -1, errorsBefore |-> 0, linesBefore |-> 0, seed |-> -1]

Init ==
  /\ maxPages \in -1 .. MaxPagesOption
  /\ generatorPattern \in GeneratorPattern
  /\ noErrorCheck \in BOOLEAN
  /\ mDmaLoopBreak = FALSE
  /\ sigInt = FALSE
  /\ freeQueue = FillFreeQueue(<< >>, 0)
  /\ readoutQueue = << >>
  /\ hwQueue = << >>
  /\ hwSubmitted = 0
  /\ received = [o \in Offsets |-> 0]
  /\ pushPc = "top"
  /\ superpage = None
  /\ mPushCount = 0
  /\ rdPc = "top"
  /\ offset = None
  /\ i = 0
  /\ exception = "none"
  /\ mReadoutCount = 0
  /\ monPc = "loop"
  /\ ctlPc = "dmaLoop"
  /\ popped = 0
  /\ fileOutputAscii = FALSE
  /\ fileOutputBin = FALSE
  /\ bufferSizeString = << "1", "0", "M", "B" >>
  /\ superpageSizeMiB = 1
  /\ resetChannel = FALSE
  /\ hugePageSize = "SIZE_2MB"
  /\ bufferSizeMiB = MiB(10)
  /\ channelCalls = << "getMaster", "startDma" >>
  /\ mCardType = "Cru"
  /\ noResyncCounter = FALSE
  /\ verbose = FALSE
  /\ mDataGeneratorCounter = -1
  /\ mErrorCount = 0
  /\ errorLines = 0
  /\ lastErrorLine = << >>
  /\ page = << >>
  /\ checked = NoCheck
  /\ lastWrite = NoWrite
  /\ StreamsIdle

(***************************************************************************)
(* The push thread.                                                        *)
(***************************************************************************)
\* Faulty variant: the page limit is compared with > instead of >=.
PushTop_LimitOffByOne ==
  /\ pushPc = "top"
  /\ \/ /\ isStopDma
        /\ pushPc' = "done"
        /\ UNCHANGED hwSubmitted
     \/ /\ ~isStopDma
        /\ ~mInfinitePages /\ mPushCount > maxPages
        /\ pushPc' = "done"
        /\ UNCHANGED hwSubmitted
     \/ /\ ~isStopDma
        /\ ~(~mInfinitePages /\ mPushCount > maxPages)
        /\ mInfinitePages => mPushCount < MaxCount
        /\ hwSubmitted' = Len(hwQueue)
        /\ pushPc' = "feed"
  /\ UNCHANGED << optionVars, extraVars, mDmaLoopBreak, sigInt, freeQueue, readoutQueue,
                  hwQueue, received, superpage, mPushCount, readoutVars,
                  monPc, ctlPc, popped >>

\* while (!isStopDma()), the page limit check and fillSuperpages().
\* In unbounded mode the thread is not scheduled again once mPushCount has
\* reached MaxCount, unless the stop flag is set.
PushTop ==
  /\ pushPc = "top"
  /\ \/ /\ isStopDma
        /\ pushPc' = "done"
        /\ UNCHANGED hwSubmitted
     \/ /\ ~isStopDma
        /\ ~mInfinitePages /\ mPushCount >= maxPages
        /\ pushPc' = "done"
        /\ UNCHANGED hwSubmitted
     \/ /\ ~isStopDma
        /\ ~(~mInfinitePages /\ mPushCount >= maxPages)
        /\ mInfinitePages => mPushCount < MaxCount
        /\ hwSubmitted' = Len(hwQueue)
        /\ pushPc' = "feed"
  /\ UNCHANGED << optionVars, extraVars, mDmaLoopBreak, sigInt, freeQueue, readoutQueue,
                  hwQueue, received, superpage, mPushCount, readoutVars,
                  monPc, ctlPc, popped >>

\* Faulty variant: the front of the free queue is read but not removed.
PushFreeRead_NoRemove ==
  /\ pushPc = "feed"
  /\ IF getSuperpageQueueAvailable # 0 /\ ~QueueIsEmpty(freeQueue)
       THEN /\ superpage' = Head(freeQueue)
            /\ pushPc' = "push"
            /\ UNCHANGED freeQueue
       ELSE /\ pushPc' = "check"
            /\ UNCHANGED << superpage, freeQueue >>
  /\ UNCHANGED << optionVars, extraVars, mDmaLoopBreak, sigInt, readoutQueue,
                  channelVars, mPushCount, readoutVars, monPc, ctlPc, popped >>

\* Faulty variant: the offset returned last is taken from the free queue.
PushFreeRead_TakesNewest ==
  /\ pushPc = "feed"
  /\ IF getSuperpageQueueAvailable # 0 /\ ~QueueIsEmpty(freeQueue)
       THEN /\ superpage' = freeQueue[Len(freeQueue)]
            /\ freeQueue' = SubSeq(freeQueue, 1, Len(freeQueue) - 1)
            /\ pushPc' = "push"
       ELSE /\ pushPc' = "check"
            /\ UNCHANGED << superpage, freeQueue >>
  /\ UNCHANGED << optionVars, extraVars, mDmaLoopBreak, sigInt, readoutQueue,
                  channelVars, mPushCount, readoutVars, monPc, ctlPc, popped >>

\* Faulty variant: the free queue is read without asking the card for a slot.
PushFreeRead_NoAvailableCheck ==
  /\ pushPc = "feed"
  /\ IF ~QueueIsEmpty(freeQueue)
       THEN /\ superpage' = Head(freeQueue)
            /\ freeQueue' = QueueRead(freeQueue)
            /\ pushPc' = "push"
       ELSE /\ pushPc' = "check"
            /\ UNCHANGED << superpage, freeQueue >>
  /\ UNCHANGED << optionVars, extraVars, mDmaLoopBreak, sigInt, readoutQueue,
                  channelVars, mPushCount, readoutVars, monPc, ctlPc, popped >>

\* while (getSuperpageQueueAvailable() != 0) { if (freeQueue.read(...)) ... }
PushFreeRead ==
  /\ pushPc = "feed"
  /\ IF getSuperpageQueueAvailable # 0 /\ ~QueueIsEmpty(freeQueue)
       THEN /\ superpage' = Head(freeQueue)
            /\ freeQueue' = QueueRead(freeQueue)
            /\ pushPc' = "push"
       ELSE /\ pushPc' = "check"
            /\ UNCHANGED << superpage, freeQueue >>
  /\ UNCHANGED << optionVars, extraVars, mDmaLoopBreak, sigInt, readoutQueue,
                  channelVars, mPushCount, readoutVars, monPc, ctlPc, popped >>

\* superpage.size = mSuperpageSize; mChannel->pushSuperpage(superpage);
PushSuperpage ==
  /\ pushPc = "push"
  /\ hwQueue' = Append(hwQueue, superpage)
  /\ received' = [received EXCEPT ![superpage] = 0]
  /\ superpage' = None
  /\ pushPc' = "feed"
  /\ UNCHANGED << optionVars, extraVars, mDmaLoopBreak, sigInt, freeQueue, readoutQueue,
                  hwSubmitted, mPushCount, readoutVars, monPc, ctlPc, popped >>

\* Faulty variant: the head of the card's queue is taken without isFilled().
PushCheckFilled_NoIsFilled ==
  /\ pushPc = "check"
  /\ pushPc' = IF getSuperpageQueueCount > 0 THEN "write" ELSE "top"
  /\ UNCHANGED << optionVars, extraVars, mDmaLoopBreak, sigInt, freeQueue, readoutQueue,
                  channelVars, superpage, mPushCount, readoutVars, monPc,
                  ctlPc, popped >>

\* if (getSuperpageQueueCount() > 0) { ... if (superpage.isFilled()) ...
PushCheckFilled ==
  /\ pushPc = "check"
  /\ pushPc' = IF getSuperpageQueueCount > 0 /\ isFilled(getSuperpage)
                 THEN "write" ELSE "top"
  /\ UNCHANGED << optionVars, extraVars, mDmaLoopBreak, sigInt, freeQueue, readoutQueue,
                  channelVars, superpage, mPushCount, readoutVars, monPc,
                  ctlPc, popped >>

\* Faulty variant: the offset is counted as handed over without the write.
PushReadoutWrite_SkipsWrite ==
  /\ pushPc = "write"
  /\ pushPc' = "count"
  /\ UNCHANGED << optionVars, extraVars, mDmaLoopBreak, sigInt, freeQueue, readoutQueue,
                  channelVars, superpage, mPushCount, readoutVars, monPc, ctlPc,
                  popped >>

\* if (readoutQueue.write(superpage.getOffset()))
PushReadoutWrite ==
  /\ pushPc = "write"
  /\ readoutQueue' = QueueWrite(readoutQueue, getSuperpage)
  /\ pushPc' = IF QueueIsFull(readoutQueue) THEN "top" ELSE "count"
  /\ UNCHANGED << optionVars, extraVars, mDmaLoopBreak, sigInt, freeQueue, channelVars,
                  superpage, mPushCount, readoutVars, monPc, ctlPc, popped >>

\* Faulty variant: one page is counted for a superpage handed over.
PushCountAdd_CountsOnePage ==
  /\ pushPc = "count"
  /\ mPushCount' = mPushCount + 1
  /\ pushPc' = "pop"
  /\ UNCHANGED << optionVars, extraVars, mDmaLoopBreak, sigInt, freeQueue, readoutQueue,
                  channelVars, superpage, readoutVars, monPc, ctlPc, popped >>

\* mPushCount.fetch_add(pagesPerSuperpage)
PushCountAdd ==
  /\ pushPc = "count"
  /\ mPushCount' = mPushCount + pagesPerSuperpage
  /\ pushPc' = "pop"
  /\ UNCHANGED << optionVars, extraVars, mDmaLoopBreak, sigInt, freeQueue, readoutQueue,
                  channelVars, superpage, readoutVars, monPc, ctlPc, popped >>

\* Faulty variant: popSuperpage() is left out.
PushPopSuperpage_NoPop ==
  /\ pushPc = "pop"
  /\ pushPc' = "top"
  /\ UNCHANGED << optionVars, extraVars, mDmaLoopBreak, sigInt, freeQueue, readoutQueue,
                  channelVars, superpage, mPushCount, readoutVars, monPc, ctlPc,
                  popped >>

\* Faulty variant: the newest descriptor is popped instead of the head.
PushPopSuperpage_PopsNewest ==
  /\ pushPc = "pop"
  /\ hwQueue' = SubSeq(hwQueue, 1, Len(hwQueue) - 1)
  /\ hwSubmitted' = IF hwSubmitted > 0 THEN hwSubmitted - 1 ELSE 0
  /\ pushPc' = "top"
  /\ UNCHANGED << optionVars, extraVars, mDmaLoopBreak, sigInt, freeQueue, readoutQueue,
                  received, superpage, mPushCount, readoutVars, monPc, ctlPc,
                  popped >>

\* mChannel->popSuperpage()
PushPopSuperpage ==
  /\ pushPc = "pop"
  /\ hwQueue' = Tail(hwQueue)
  /\ hwSubmitted' = IF hwSubmitted > 0 THEN hwSubmitted - 1 ELSE 0
  /\ pushPc' = "top"
  /\ UNCHANGED << optionVars, extraVars, mDmaLoopBreak, sigInt, freeQueue, readoutQueue,
                  received, superpage, mPushCount, readoutVars, monPc, ctlPc,
                  popped >>

(***************************************************************************)
(* The readout loop (main thread).                                         *)
(***************************************************************************)
\* Faulty variant: the page limit is checked without !mInfinitePages.
ReadoutTop_NoInfiniteCheck ==
  /\ rdPc = "top"
  /\ IF isStopDma
       THEN /\ rdPc' = "done"
            /\ UNCHANGED mDmaLoopBreak
       ELSE IF mReadoutCount >= maxPages
         THEN /\ mDmaLoopBreak' = TRUE
              /\ rdPc' = "done"
         ELSE /\ rdPc' = "read"
              /\ UNCHANGED mDmaLoopBreak
  /\ UNCHANGED << optionVars, extraVars, sigInt, freeQueue, readoutQueue, channelVars,
                  pushVars, offset, i, exception, mReadoutCount, monPc, ctlPc,
                  popped >>

\* while (!isStopDma()) and the page limit check that sets mDmaLoopBreak.
ReadoutTop ==
  /\ rdPc = "top"
  /\ IF isStopDma
       THEN /\ rdPc' = "done"
            /\ UNCHANGED mDmaLoopBreak
       ELSE IF ~mInfinitePages /\ mReadoutCount >= maxPages
         THEN /\ mDmaLoopBreak' = TRUE
              /\ rdPc' = "done"
         ELSE /\ rdPc' = "read"
              /\ UNCHANGED mDmaLoopBreak
  /\ UNCHANGED << optionVars, extraVars, sigInt, freeQueue, readoutQueue, channelVars,
                  pushVars, offset, i, exception, mReadoutCount, monPc, ctlPc,
                  popped >>

\* if (readoutQueue.read(offset))
ReadoutQueueRead ==
  /\ rdPc = "read"
  /\ IF QueueIsEmpty(readoutQueue)
       THEN /\ rdPc' = "top"
            /\ UNCHANGED << offset, i, readoutQueue >>
       ELSE /\ offset' = Head(readoutQueue)
            /\ readoutQueue' = QueueRead(readoutQueue)
            /\ i' = 0
            /\ rdPc' = "pages"
  /\ UNCHANGED << optionVars, extraVars, mDmaLoopBreak, sigInt, freeQueue, channelVars,
                  pushVars, exception, mReadoutCount, monPc, ctlPc, popped >>

\* One round of for (int i = 0; i < pages; ++i): fetch_add and readoutPage.
ReadoutPage ==
  /\ rdPc = "pages"
  /\ mReadoutCount' = mReadoutCount + 1
  /\ IF readoutPageThrows
       THEN /\ rdPc' = "thrown"
            /\ exception' = "Unsupported pattern"
            /\ UNCHANGED i
       ELSE /\ i' = i + 1
            /\ rdPc' = IF i + 1 < pagesPerSuperpage THEN "pages" ELSE "free"
            /\ UNCHANGED exception
  /\ UNCHANGED << optionVars, extraVars, mDmaLoopBreak, sigInt, freeQueue, readoutQueue,
                  channelVars, pushVars, offset, monPc, ctlPc, popped >>

\* if (!freeQueue.write(offset)) throw "Something went horribly wrong"
ReadoutFreeWrite ==
  /\ rdPc = "free"
  /\ freeQueue' = QueueWrite(freeQueue, offset)
  /\ IF QueueIsFull(freeQueue)
       THEN /\ rdPc' = "thrown"
            /\ exception' = "Something went horribly wrong"
            /\ UNCHANGED offset
       ELSE /\ rdPc' = "top"
            /\ offset' = None
            /\ UNCHANGED exception
  /\ UNCHANGED << optionVars, extraVars, mDmaLoopBreak, sigInt, readoutQueue,
                  channelVars, pushVars, i, mReadoutCount, monPc, ctlPc,
                  popped >>

(***************************************************************************)
(* readoutPage on the page the readout loop is at.                         *)
(***************************************************************************)
\* auto readoutCount = mReadoutCount.fetch_add(1): only the readout loop adds
\* to mReadoutCount.
readoutCount == mReadoutCount - 1

\* The error checking block of readoutPage on the current page: the counter
\* it checks against and what checkErrors returns.
SeededCounter ==
  IF mDataGeneratorCounter = -1 THEN getDataGeneratorCounterFromPage(page)
  ELSE mDataGeneratorCounter

ErrorCheck ==
  LET st == [mErrorCount |-> mErrorCount, errorLines |-> errorLines,
             lastErrorLine |-> lastErrorLine]
  IN IF noErrorCheck THEN Checked(FALSE, FALSE, st)
     ELSE checkErrors(st, page, readoutCount, SeededCounter)

(***************************************************************************)
(* The low priority thread.                                                *)
(***************************************************************************)
\* The "n/a" of the status line.
NotAvailable == -1

\* mErrorCount is a plain int64_t that the readout loop writes in checkErrors
\* and addError: a read by the low priority thread during the error check of
\* a page sees any value from the count before to the count after it.
ErrorCountRead ==
  IF rdPc = "check" THEN mErrorCount .. ErrorCheck.st.mErrorCount
  ELSE { mErrorCount }

\* while (!isStopDma())
MonitorLoop ==
  /\ monPc = "loop"
  /\ monPc' = IF isStopDma THEN "done" ELSE "tasks"
  /\ UNCHANGED << optionVars, extraVars, mDmaLoopBreak, sigInt, freeQueue, readoutQueue,
                  channelVars, pushVars, readoutVars, ctlPc, popped >>

\* Faulty variant: a SIGINT is reported but mDmaLoopBreak is not set.
lowPriorityTasks_NoBreak ==
  /\ monPc = "tasks"
  /\ monPc' = "loop"
  /\ UNCHANGED << optionVars, extraVars, mDmaLoopBreak, sigInt, freeQueue, readoutQueue,
                  channelVars, pushVars, readoutVars, ctlPc, popped >>

\* lowPriorityTasks(): a SIGINT sets mDmaLoopBreak; otherwise, if verbose,
\* updateStatusDisplay() prints the two counters and the error count.
lowPriorityTasks ==
  /\ monPc = "tasks"
  /\ IF sigInt
       THEN /\ mDmaLoopBreak' = TRUE
            /\ UNCHANGED statusLine
       ELSE /\ UNCHANGED mDmaLoopBreak
            /\ IF verbose
                 THEN \E e \in ErrorCountRead :
                        statusLine' = [pushCount |-> mPushCount,
                                       readoutCount |-> mReadoutCount,
                                       errors |-> IF noErrorCheck THEN NotAvailable
                                                  ELSE e]
                 ELSE UNCHANGED statusLine
  /\ monPc' = "loop"
  /\ UNCHANGED << optionVars, configVars, channelCalls, verifierVars, lastWrite,
                  pageReset, mReadoutStream, sigInt, freeQueue, readoutQueue,
                  channelVars, pushVars, readoutVars, ctlPc, popped >>

(***************************************************************************)
(* The environment: the signal handler and the card.                       *)
(***************************************************************************)
SigInt ==
  /\ ctlPc = "dmaLoop"
  /\ ~sigInt
  /\ sigInt' = TRUE
  /\ UNCHANGED << optionVars, extraVars, mDmaLoopBreak, freeQueue, readoutQueue,
                  channelVars, pushVars, readoutVars, monPc, ctlPc, popped >>

\* The card writes one more page into the oldest superpage that was handed
\* to the firmware and is not filled yet.
HwFill ==
  /\ ctlPc \in { "dmaLoop", "freeExcessPages" }
  /\ \E k \in 1 .. hwSubmitted :
       /\ ~isFilled(hwQueue[k])
       /\ \A j \in 1 .. k - 1 : isFilled(hwQueue[j])
       /\ received' = [received EXCEPT ![hwQueue[k]] = @ + mPageSize]
  /\ UNCHANGED << optionVars, extraVars, mDmaLoopBreak, sigInt, freeQueue, readoutQueue,
                  hwQueue, hwSubmitted, pushVars, readoutVars, monPc, ctlPc,
                  popped >>

(***************************************************************************)
(* ProgramDmaBench::run after the readout loop.                            *)
(***************************************************************************)
\* pushFuture.get(); lowPriorityFuture.get(); an exception of the readout
\* loop leaves dmaLoop through the destructors of the two futures, which
\* wait for the threads as well, and then leaves run().
JoinThreads ==
  /\ ctlPc = "dmaLoop"
  /\ rdPc \in { "done", "thrown" }
  /\ pushPc = "done"
  /\ monPc = "done"
  /\ ctlPc' = IF rdPc = "done" THEN "freeExcessPages" ELSE "failed"
  /\ UNCHANGED << optionVars, extraVars, mDmaLoopBreak, sigInt, freeQueue, readoutQueue,
                  channelVars, pushVars, readoutVars, monPc, popped >>

\* freeExcessPages: one round of the loop that pops a filled superpage.
FreeExcessPop ==
  /\ ctlPc = "freeExcessPages"
  /\ getSuperpageQueueCount > 0
  /\ isFilled(getSuperpage)
  /\ popped' = popped + (received[getSuperpage] \div mPageSize)
  /\ hwQueue' = Tail(hwQueue)
  /\ hwSubmitted' = IF hwSubmitted > 0 THEN hwSubmitted - 1 ELSE 0
  /\ UNCHANGED << optionVars, extraVars, mDmaLoopBreak, sigInt, freeQueue, readoutQueue,
                  received, pushVars, readoutVars, monPc, ctlPc >>

\* freeExcessPages: the timeout has passed.
FreeExcessTimeout ==
  /\ ctlPc = "freeExcessPages"
  /\ ctlPc' = "stopDma"
  /\ UNCHANGED << optionVars, extraVars, mDmaLoopBreak, sigInt, freeQueue, readoutQueue,
                  channelVars, pushVars, readoutVars, monPc, popped >>

\* mChannel->stopDma()
StopDma ==
  /\ ctlPc = "stopDma"
  /\ ctlPc' = "done"
  /\ channelCalls' = Append(channelCalls, "stopDma")
  /\ UNCHANGED << optionVars, configVars, verifierVars, lastWrite, pageVars,
                  mDmaLoopBreak, sigInt, freeQueue, readoutQueue,
                  channelVars, pushVars, readoutVars, monPc, popped >>

PushThread ==
  \/ PushTop
  \/ PushFreeRead
  \/ PushSuperpage
  \/ PushCheckFilled
  \/ PushReadoutWrite
  \/ PushCountAdd
  \/ PushPopSuperpage

ReadoutLoop ==
  \/ ReadoutTop
  \/ ReadoutQueueRead
  \/ ReadoutPage
  \/ ReadoutFreeWrite

LowPriorityThread ==
  \/ MonitorLoop
  \/ lowPriorityTasks

Controller ==
  \/ JoinThreads
  \/ FreeExcessPop
  \/ FreeExcessTimeout
  \/ StopDma

Next ==
  \/ PushThread
  \/ ReadoutLoop
  \/ LowPriorityThread
  \/ Controller
  \/ HwFill
  \/ SigInt

Spec == Init /\ [][Next]_vars

(***************************************************************************)
(* Fairness: every thread that can take a step eventually takes one, the   *)
(* card keeps filling the superpages it was given, and run() proceeds.     *)
(* No fairness is assumed of the signal handler.                           *)
(***************************************************************************)
TaskFairness ==
  /\ WF_vars(PushThread)
  /\ WF_vars(ReadoutLoop)
  /\ WF_vars(LowPriorityThread)
  /\ WF_vars(Controller)

\* The threads are scheduled fairly; nothing is assumed of the card.
TaskFairSpec == Init /\ [][Next]_vars /\ TaskFairness

\* The threads are scheduled fairly and the card keeps filling.
FairSpec == Init /\ [][Next]_vars /\ TaskFairness /\ WF_vars(HwFill)

(***************************************************************************)
(* The verifier on its own: readoutPage is called on one page after        *)
(* another, as the readout loop calls it, with page contents drawn from    *)
(* generated pages of which some words were changed.  Nothing else runs.   *)
(***************************************************************************)
PipelineIdle ==
  /\ mDmaLoopBreak = FALSE
  /\ sigInt = FALSE
  /\ freeQueue = << >>
  /\ readoutQueue = << >>
  /\ hwQueue = << >>
  /\ hwSubmitted = 0
  /\ received = [o \in Offsets |-> 0]
  /\ pushPc = "idle"
  /\ superpage = None
  /\ mPushCount = 0
  /\ offset = None
  /\ i = 0
  /\ monPc = "idle"
  /\ popped = 0

ConfigDefault ==
  /\ fileOutputAscii = FALSE
  /\ fileOutputBin = FALSE
  /\ bufferSizeString = << "1", "0", "M", "B" >>
  /\ superpageSizeMiB = 1
  /\ resetChannel = FALSE
  /\ hugePageSize = "SIZE_2MB"
  /\ bufferSizeMiB = MiB(10)

VerifierFresh ==
  /\ mDataGeneratorCounter = -1
  /\ mErrorCount = 0
  /\ errorLines = 0
  /\ lastErrorLine = << >>
  /\ page = << >>
  /\ checked = NoCheck

\* The word w plus delta, in uint32_t arithmetic.
Damage(w, delta) ==
  << (w[1] + ((w[2] + delta) \div TwoTo16)) % TwoTo16, (w[2] + delta) % TwoTo16 >>

\* The word at idx of the page the data generator writes for counter c.
GeneratedWord(c, idx) ==
  IF mCardType = "Crorc" /\ idx = 0 THEN U32(c)
  ELSE patternFunction(mCardType, generatorPattern, c, idx)

GeneratedPage(c) == [idx \in 0 .. pageSize32 - 1 |-> GeneratedWord(c, idx)]

DamagedPage(c, D, delta) ==
  [idx \in 0 .. pageSize32 - 1 |->
     IF idx \in D THEN Damage(GeneratedWord(c, idx), delta)
     ELSE GeneratedWord(c, idx)]

InputCounters == { 0, 1, TwoTo24 - 1 }
DamagedSets ==
  { { }, { 0 }, { 8 }, { pageSize32 - 1 }, { 0, 8 }, { 8, pageSize32 - 1 } }
Deltas == { 1, 256 }
InputPages ==
  { DamagedPage(c, D, delta) : c \in InputCounters, D \in DamagedSets, delta \in Deltas }

\* One call readoutPage(pageAddress, pageSize, readoutCount) of the readout
\* loop, on a page holding pg, with its fetch_add of mReadoutCount.
ReadoutPageContents(pg) ==
  LET st == [mErrorCount |-> mErrorCount, errorLines |-> errorLines,
             lastErrorLine |-> lastErrorLine]
      seeded == IF mDataGeneratorCounter = -1
                  THEN getDataGeneratorCounterFromPage(pg)
                  ELSE mDataGeneratorCounter
      r == IF noErrorCheck THEN Checked(FALSE, FALSE, st)
           ELSE checkErrors(st, pg, mReadoutCount, seeded)
  IN /\ rdPc = "pages"
     /\ mReadoutCount < maxPages
     /\ mReadoutCount' = mReadoutCount + 1
     /\ page' = pg
     /\ checked' = [done |-> TRUE, thrown |-> r.thrown, hasError |-> r.hasError,
                    counter |-> IF noErrorCheck THEN mDataGeneratorCounter
                                ELSE seeded,
                    eventNumber |-> mReadoutCount,
                    errorsBefore |-> mErrorCount, linesBefore |-> errorLines,
                    seed |-> IF checked.done THEN checked.seed ELSE seeded]
     /\ mErrorCount' = r.st.mErrorCount
     /\ errorLines' = r.st.errorLines
     /\ lastErrorLine' = r.st.lastErrorLine
     /\ IF r.thrown
          THEN /\ mDataGeneratorCounter' = seeded
               /\ rdPc' = "thrown"
               /\ exception' = "Unsupported pattern"
          ELSE /\ mDataGeneratorCounter' =
                    IF noErrorCheck THEN mDataGeneratorCounter + 1
                    ELSE NextGeneratorCounter(seeded, r.hasError, pg)
               /\ UNCHANGED << rdPc, exception >>
     /\ UNCHANGED << optionVars, configVars, channelCalls, mCardType,
                     noResyncCounter, verbose, lastWrite, pageVars,
                     mDmaLoopBreak, sigInt,
                     freeQueue, readoutQueue, channelVars, pushVars, offset, i,
                     monPc, ctlPc, popped >>

ReadoutInputPage == \E pg \in InputPages : ReadoutPageContents(pg)

VerifyInit ==
  /\ PipelineIdle
  /\ ConfigDefault
  /\ VerifierFresh
  /\ maxPages = MaxPagesRead
  /\ generatorPattern \in GeneratorPattern
  /\ noErrorCheck \in BOOLEAN
  /\ mCardType \in CardType
  /\ noResyncCounter \in BOOLEAN
  /\ verbose \in BOOLEAN
  /\ channelCalls = << "getMaster", "startDma" >>
  /\ lastWrite = NoWrite
  /\ StreamsIdle
  /\ rdPc = "pages"
  /\ exception = "none"
  /\ mReadoutCount = 0
  /\ ctlPc = "dmaLoop"

VerifyNext == ReadoutInputPage

VerifySpec == VerifyInit /\ [][VerifyNext]_vars

\* The run that fills the error log: every page has a wrong data word.
ReadoutDamagedPage == ReadoutPageContents(DamagedPage(0, { 8 }, 1))

ErrorLogInit ==
  /\ PipelineIdle
  /\ ConfigDefault
  /\ VerifierFresh
  /\ maxPages = MaxLoggedPages
  /\ generatorPattern \in { "Incremental", "Constant" }
  /\ noErrorCheck = FALSE
  /\ mCardType \in CardType
  /\ noResyncCounter \in BOOLEAN
  /\ verbose \in BOOLEAN
  /\ channelCalls = << "getMaster", "startDma" >>
  /\ lastWrite = NoWrite
  /\ StreamsIdle
  /\ rdPc = "pages"
  /\ exception = "none"
  /\ mReadoutCount = 0
  /\ ctlPc = "dmaLoop"

ErrorLogNext == ReadoutDamagedPage

ErrorLogSpec == ErrorLogInit /\ [][ErrorLogNext]_vars

(***************************************************************************)
(* The readout of one superpage, step by step: the readout loop holds the  *)
(* first superpage the push thread handed over and calls readoutPage on    *)
(* each of its pages, while the low priority thread runs.  The push thread *)
(* is not scheduled.  Page contents are drawn from generated pages with or *)
(* without a wrong word.  (The pages of the program are a multiple of the  *)
(* eight words printToFile prints per line; the dump is modelled as the    *)
(* words of the page.)                                                     *)
(***************************************************************************)
BUFFER_DEFAULT_VALUE == << 52428, 52428 >>

StreamPages == { DamagedPage(c, D, 1) : c \in { 0, 1 }, D \in { { }, { 8 } } }

\* auto readoutCount = mReadoutCount.fetch_add(1) on the next page of the
\* superpage, which the card filled with pg.
ReadoutFetchAdd ==
  /\ rdPc = "pages"
  /\ \E pg \in StreamPages : page' = pg
  /\ mReadoutCount' = mReadoutCount + 1
  /\ rdPc' = "printToFile"
  /\ UNCHANGED << optionVars, configVars, channelCalls, mCardType, noResyncCounter,
                  verbose, mDataGeneratorCounter, mErrorCount, errorLines,
                  lastErrorLine, checked, lastWrite, pageVars, mDmaLoopBreak,
                  sigInt, freeQueue, readoutQueue, channelVars, pushVars, offset,
                  i, exception, monPc, ctlPc, popped >>

\* Faulty variant: the page is dumped only when error checking is off.
ReadoutPrintToFile_OnlyUnchecked ==
  /\ rdPc = "printToFile"
  /\ mReadoutStream' =
       IF fileOutputAscii /\ noErrorCheck
         THEN Append(mReadoutStream, [event |-> readoutCount, words |-> page])
       ELSE IF fileOutputBin /\ noErrorCheck
         THEN Append(mReadoutStream, [event |-> None, words |-> page])
       ELSE mReadoutStream
  /\ rdPc' = "check"
  /\ UNCHANGED << optionVars, configVars, channelCalls, verifierVars, lastWrite,
                  pageReset, statusLine, mDmaLoopBreak, sigInt, freeQueue,
                  readoutQueue, channelVars, pushVars, offset, i, exception,
                  mReadoutCount, monPc, ctlPc, popped >>

\* if (fileOutputAscii || fileOutputBin) printToFile(...): the ASCII dump
\* starts with "Event #" and the page number, the binary dump is the page.
ReadoutPrintToFile ==
  /\ rdPc = "printToFile"
  /\ mReadoutStream' =
       IF fileOutputAscii
         THEN Append(mReadoutStream, [event |-> readoutCount, words |-> page])
       ELSE IF fileOutputBin
         THEN Append(mReadoutStream, [event |-> None, words |-> page])
       ELSE mReadoutStream
  /\ rdPc' = "check"
  /\ UNCHANGED << optionVars, configVars, channelCalls, verifierVars, lastWrite,
                  pageReset, statusLine, mDmaLoopBreak, sigInt, freeQueue,
                  readoutQueue, channelVars, pushVars, offset, i, exception,
                  mReadoutCount, monPc, ctlPc, popped >>

\* Faulty variant: a page with a mismatch ends the readout loop.
ReadoutCheck_MismatchFatal ==
  LET r == ErrorCheck
  IN /\ rdPc = "check"
     /\ checked' = [done |-> TRUE, thrown |-> r.thrown, hasError |-> r.hasError,
                    counter |-> IF noErrorCheck THEN mDataGeneratorCounter
                                ELSE SeededCounter,
                    eventNumber |-> readoutCount,
                    errorsBefore |-> mErrorCount, linesBefore |-> errorLines,
                    seed |-> IF checked.done THEN checked.seed ELSE SeededCounter]
     /\ mErrorCount' = r.st.mErrorCount
     /\ errorLines' = r.st.errorLines
     /\ lastErrorLine' = r.st.lastErrorLine
     /\ IF r.thrown \/ r.hasError
          THEN /\ mDataGeneratorCounter' = SeededCounter
               /\ rdPc' = "thrown"
               /\ exception' = "Unsupported pattern"
          ELSE /\ mDataGeneratorCounter' =
                    IF noErrorCheck THEN mDataGeneratorCounter
                    ELSE NextGeneratorCounter(SeededCounter, r.hasError, page) - 1
               /\ rdPc' = "resetPage"
               /\ UNCHANGED exception
     /\ UNCHANGED << optionVars, configVars, channelCalls, mCardType,
                     noResyncCounter, verbose, page, lastWrite, pageVars,
                     mDmaLoopBreak, sigInt, freeQueue, readoutQueue, channelVars,
                     pushVars, offset, i, mReadoutCount, monPc, ctlPc, popped >>

\* if (!noErrorCheck) { seed the counter from the first page; checkErrors;
\* resynchronise the counter after a mismatch unless noResyncCounter }
ReadoutCheck ==
  LET r == ErrorCheck
  IN /\ rdPc = "check"
     /\ checked' = [done |-> TRUE, thrown |-> r.thrown, hasError |-> r.hasError,
                    counter |-> IF noErrorCheck THEN mDataGeneratorCounter
                                ELSE SeededCounter,
                    eventNumber |-> readoutCount,
                    errorsBefore |-> mErrorCount, linesBefore |-> errorLines,
                    seed |-> IF checked.done THEN checked.seed ELSE SeededCounter]
     /\ mErrorCount' = r.st.mErrorCount
     /\ errorLines' = r.st.errorLines
     /\ lastErrorLine' = r.st.lastErrorLine
     /\ IF r.thrown
          THEN /\ mDataGeneratorCounter' = SeededCounter
               /\ rdPc' = "thrown"
               /\ exception' = "Unsupported pattern"
          ELSE /\ mDataGeneratorCounter' =
                    IF noErrorCheck THEN mDataGeneratorCounter
                    ELSE NextGeneratorCounter(SeededCounter, r.hasError, page) - 1
               /\ rdPc' = "resetPage"
               /\ UNCHANGED exception
     /\ UNCHANGED << optionVars, configVars, channelCalls, mCardType,
                     noResyncCounter, verbose, page, lastWrite, pageVars,
                     mDmaLoopBreak, sigInt, freeQueue, readoutQueue, channelVars,
                     pushVars, offset, i, mReadoutCount, monPc, ctlPc, popped >>

\* if (pageReset) resetPage(...): every word is set to BUFFER_DEFAULT_VALUE.
ReadoutResetPage ==
  /\ rdPc = "resetPage"
  /\ page' = IF pageReset THEN [idx \in 0 .. pageSize32 - 1 |-> BUFFER_DEFAULT_VALUE]
             ELSE page
  /\ rdPc' = "advance"
  /\ UNCHANGED << optionVars, configVars, channelCalls, mCardType, noResyncCounter,
                  verbose, mDataGeneratorCounter, mErrorCount, errorLines,
                  lastErrorLine, checked, lastWrite, pageVars, mDmaLoopBreak,
                  sigInt, freeQueue, readoutQueue, channelVars, pushVars, offset,
                  i, exception, mReadoutCount, monPc, ctlPc, popped >>

\* mDataGeneratorCounter++; and the ++i of the loop over the pages.
ReadoutAdvance ==
  /\ rdPc = "advance"
  /\ mDataGeneratorCounter' = mDataGeneratorCounter + 1
  /\ i' = i + 1
  /\ rdPc' = IF i + 1 < pagesPerSuperpage THEN "pages" ELSE "free"
  /\ UNCHANGED << optionVars, configVars, channelCalls, mCardType, noResyncCounter,
                  verbose, mErrorCount, errorLines, lastErrorLine, page, checked,
                  lastWrite, pageVars, mDmaLoopBreak, sigInt, freeQueue,
                  readoutQueue, channelVars, pushVars, offset, exception,
                  mReadoutCount, monPc, ctlPc, popped >>

PageInit ==
  /\ maxPages = 0
  /\ generatorPattern \in GeneratorPattern
  /\ noErrorCheck \in BOOLEAN
  /\ mDmaLoopBreak = FALSE
  /\ sigInt = FALSE
  /\ freeQueue = Tail(FillFreeQueue(<< >>, 0))
  /\ readoutQueue = << >>
  /\ hwQueue = << >>
  /\ hwSubmitted = 0
  /\ received = [o \in Offsets |-> IF o = indexToOffset(0) THEN mSuperpageSize ELSE 0]
  /\ pushPc = "top"
  /\ superpage = None
  /\ mPushCount = pagesPerSuperpage
  /\ rdPc = "pages"
  /\ offset = indexToOffset(0)
  /\ i = 0
  /\ exception = "none"
  /\ mReadoutCount = 0
  /\ monPc = "loop"
  /\ ctlPc = "dmaLoop"
  /\ popped = 0
  /\ fileOutputAscii \in BOOLEAN
  /\ fileOutputBin \in BOOLEAN
  /\ ~(fileOutputAscii /\ fileOutputBin)
  /\ bufferSizeString = << "1", "0", "M", "B" >>
  /\ superpageSizeMiB = 1
  /\ resetChannel = FALSE
  /\ hugePageSize = "SIZE_2MB"
  /\ bufferSizeMiB = MiB(10)
  /\ channelCalls = << "getMaster", "startDma" >>
  /\ mCardType \in CardType
  /\ noResyncCounter = FALSE
  /\ verbose \in BOOLEAN
  /\ VerifierFresh
  /\ lastWrite = NoWrite
  /\ pageReset \in BOOLEAN
  /\ mReadoutStream = << >>
  /\ statusLine = NoStatus

PageNext ==
  \/ ReadoutFetchAdd
  \/ ReadoutPrintToFile
  \/ ReadoutCheck
  \/ ReadoutResetPage
  \/ ReadoutAdvance
  \/ ReadoutFreeWrite
  \/ MonitorLoop
  \/ lowPriorityTasks
  \/ SigInt

PageSpec == PageInit /\ [][PageNext]_vars

(***************************************************************************)
(* run() up to the call of dmaLoop: the options are validated, the buffer  *)
(* is created, the channel is acquired, reset if asked, and started.       *)
(* An exception leaves run(): ctlPc = "failed".  The barHammer option is   *)
(* taken to be off.                                                        *)
(***************************************************************************)
BufferSizeChars == { "0", "1", "-", "M", "G", "B" }

RECURSIVE Strings(_)
Strings(n) ==
  IF n = 0 THEN { << >> }
  ELSE Strings(n - 1) \cup
       { Append(s, c) : s \in { t \in Strings(n - 1) : Len(t) = n - 1 },
                        c \in BufferSizeChars }

Throw(message) ==
  /\ exception' = message
  /\ ctlPc' = "failed"

ConfigUnchanged ==
  UNCHANGED << optionVars, noResyncCounter, verbose, mDataGeneratorCounter,
               mErrorCount, errorLines, lastErrorLine, page, checked,
               lastWrite, pageVars, mDmaLoopBreak, sigInt,
               readoutQueue, channelVars, superpage, mPushCount, offset, i,
               mReadoutCount, popped, fileOutputAscii, fileOutputBin,
               bufferSizeString, superpageSizeMiB, resetChannel >>

\* if (fileOutputAscii && fileOutputBin) throw; then the dump file is opened
CheckOutputOptions ==
  /\ ctlPc = "options"
  /\ IF fileOutputAscii /\ fileOutputBin
       THEN Throw("File output can't be both ASCII and binary")
       ELSE ctlPc' = "bufferSize" /\ UNCHANGED exception
  /\ ConfigUnchanged
  /\ UNCHANGED << hugePageSize, bufferSizeMiB, channelCalls, mCardType,
                  freeQueue, pushPc, rdPc, monPc >>

\* "Parse buffer size"
ParseBufferSizeOption ==
  LET r == ParseBufferSize(bufferSizeString)
  IN /\ ctlPc = "bufferSize"
     /\ IF r.error # "none"
          THEN Throw(r.error) /\ UNCHANGED << hugePageSize, bufferSizeMiB >>
          ELSE /\ hugePageSize' = r.hugePageSize
               /\ bufferSizeMiB' = r.size
               /\ ctlPc' = "checkSize"
               /\ UNCHANGED exception
     /\ ConfigUnchanged
     /\ UNCHANGED << channelCalls, mCardType, freeQueue, pushPc, rdPc, monPc >>

\* if (mBufferSize < mSuperpageSize) throw
CheckBufferSize ==
  /\ ctlPc = "checkSize"
  /\ IF BufferSmallerThanSuperpage(bufferSizeMiB, superpageSizeMiB)
       THEN Throw("Buffer size smaller than superpage size")
       ELSE ctlPc' = "buffer" /\ UNCHANGED exception
  /\ ConfigUnchanged
  /\ UNCHANGED << hugePageSize, bufferSizeMiB, channelCalls, mCardType,
                  freeQueue, pushPc, rdPc, monPc >>

\* "Create buffer": the file is mapped with mBufferSize bytes.  The mapping
\* can fail, and does for a size that wrapped around 2^64.
CreateBuffer ==
  /\ ctlPc = "buffer"
  /\ \/ Throw("Failed to map buffer")
     \/ /\ ~bufferSizeMiB.wrapped
        /\ ctlPc' = "getMaster"
        /\ UNCHANGED exception
  /\ ConfigUnchanged
  /\ UNCHANGED << hugePageSize, bufferSizeMiB, channelCalls, mCardType,
                  freeQueue, pushPc, rdPc, monPc >>

\* mChannel = ChannelFactory().getMaster(params); mCardType = getCardType()
GetMaster ==
  /\ ctlPc = "getMaster"
  /\ channelCalls' = Append(channelCalls, "getMaster")
  /\ \E t \in CardType : mCardType' = t
  /\ ctlPc' = IF resetChannel THEN "resetChannel" ELSE "startDma"
  /\ ConfigUnchanged
  /\ UNCHANGED << exception, hugePageSize, bufferSizeMiB, freeQueue, pushPc,
                  rdPc, monPc >>

\* if (mOptions.resetChannel) mChannel->resetChannel(ResetLevel::Rorc)
ResetChannel ==
  /\ ctlPc = "resetChannel"
  /\ channelCalls' = Append(channelCalls, "resetChannel")
  /\ ctlPc' = "startDma"
  /\ ConfigUnchanged
  /\ UNCHANGED << exception, hugePageSize, bufferSizeMiB, mCardType, freeQueue,
                  pushPc, rdPc, monPc >>

\* mChannel->startDma()
StartDma ==
  /\ ctlPc = "startDma"
  /\ channelCalls' = Append(channelCalls, "startDma")
  /\ ctlPc' = "launch"
  /\ ConfigUnchanged
  /\ UNCHANGED << exception, hugePageSize, bufferSizeMiB, mCardType, freeQueue,
                  pushPc, rdPc, monPc >>

\* dmaLoop() is entered: the queues are made and the threads started.
LaunchDmaLoop ==
  /\ ctlPc = "launch"
  /\ ctlPc' = "dmaLoop"
  /\ freeQueue' = FillFreeQueue(<< >>, 0)
  /\ pushPc' = "top"
  /\ rdPc' = "top"
  /\ monPc' = "loop"
  /\ ConfigUnchanged
  /\ UNCHANGED << exception, hugePageSize, bufferSizeMiB, channelCalls, mCardType >>

ConfigInit ==
  /\ PipelineIdle
  /\ VerifierFresh
  /\ maxPages = MaxPagesOption
  /\ generatorPattern = "Incremental"
  /\ noErrorCheck = FALSE
  /\ fileOutputAscii \in BOOLEAN
  /\ fileOutputBin \in BOOLEAN
  /\ bufferSizeString \in Strings(MaxBufferSizeLen)
  /\ superpageSizeMiB \in 1 .. MaxSuperpageSizeMiB
  /\ resetChannel \in BOOLEAN
  /\ hugePageSize = "none"
  /\ bufferSizeMiB = NoSize
  /\ channelCalls = << >>
  /\ mCardType = "Unknown"
  /\ noResyncCounter = FALSE
  /\ verbose = FALSE
  /\ lastWrite = NoWrite
  /\ StreamsIdle
  /\ rdPc = "idle"
  /\ exception = "none"
  /\ mReadoutCount = 0
  /\ ctlPc = "options"

ConfigNext ==
  \/ CheckOutputOptions
  \/ ParseBufferSizeOption
  \/ CheckBufferSize
  \/ CreateBuffer
  \/ GetMaster
  \/ ResetChannel
  \/ StartDma
  \/ LaunchDmaLoop

ConfigSpec == ConfigInit /\ [][ConfigNext]_vars

(***************************************************************************)
(* The two queues of dmaLoop on their own: after the setup of dmaLoop,     *)
(* offsets are written to and read from either queue in any order.         *)
(* lastWrite keeps the last write until the next read.                     *)
(***************************************************************************)
QueueUnchanged ==
  UNCHANGED << optionVars, configVars, channelCalls, verifierVars, pageVars,
               mDmaLoopBreak, sigInt, channelVars, pushPc, mPushCount, rdPc, i,
               exception, mReadoutCount, monPc, ctlPc, popped >>

\* freeQueue.write(offset)
FreeQueueWrite ==
  /\ \E v \in Offsets :
       /\ offset' = v
       /\ freeQueue' = QueueWrite(freeQueue, v)
       /\ lastWrite' = [queue |-> "free", value |-> v,
                        ok |-> ~QueueIsFull(freeQueue), before |-> freeQueue]
  /\ UNCHANGED << readoutQueue, superpage >>
  /\ QueueUnchanged

\* readoutQueue.write(superpage.getOffset())
ReadoutQueueWrite ==
  /\ \E v \in Offsets :
       /\ superpage' = v
       /\ readoutQueue' = QueueWrite(readoutQueue, v)
       /\ lastWrite' = [queue |-> "readout", value |-> v,
                        ok |-> ~QueueIsFull(readoutQueue), before |-> readoutQueue]
  /\ UNCHANGED << freeQueue, offset >>
  /\ QueueUnchanged

\* freeQueue.read(offset)
FreeQueueRead ==
  /\ ~QueueIsEmpty(freeQueue)
  /\ superpage' = Head(freeQueue)
  /\ freeQueue' = QueueRead(freeQueue)
  /\ lastWrite' = NoWrite
  /\ UNCHANGED << readoutQueue, offset >>
  /\ QueueUnchanged

\* readoutQueue.read(offset)
ReadoutQueueReadOffset ==
  /\ ~QueueIsEmpty(readoutQueue)
  /\ offset' = Head(readoutQueue)
  /\ readoutQueue' = QueueRead(readoutQueue)
  /\ lastWrite' = NoWrite
  /\ UNCHANGED << freeQueue, superpage >>
  /\ QueueUnchanged

QueueInit ==
  /\ ConfigDefault
  /\ VerifierFresh
  /\ maxPages = MaxPagesOption
  /\ generatorPattern = "Incremental"
  /\ noErrorCheck = FALSE
  /\ mDmaLoopBreak = FALSE
  /\ sigInt = FALSE
  /\ freeQueue = FillFreeQueue(<< >>, 0)
  /\ readoutQueue = << >>
  /\ hwQueue = << >>
  /\ hwSubmitted = 0
  /\ received = [o \in Offsets |-> 0]
  /\ pushPc = "idle"
  /\ superpage = None
  /\ mPushCount = 0
  /\ rdPc = "idle"
  /\ offset = None
  /\ i = 0
  /\ exception = "none"
  /\ mReadoutCount = 0
  /\ monPc = "idle"
  /\ ctlPc = "dmaLoop"
  /\ popped = 0
  /\ channelCalls = << "getMaster", "startDma" >>
  /\ mCardType = "Cru"
  /\ noResyncCounter = FALSE
  /\ verbose = FALSE
  /\ lastWrite = NoWrite
  /\ StreamsIdle

QueueNext ==
  \/ FreeQueueWrite
  \/ ReadoutQueueWrite
  \/ FreeQueueRead
  \/ ReadoutQueueReadOffset

QueueSpec == QueueInit /\ [][QueueNext]_vars

(***************************************************************************)
(* Helpers of the properties.                                              *)
(***************************************************************************)
Count(q, o) == Cardinality({ k \in DOMAIN q : q[k] = o })
Holds(v, o) == IF v = o THEN 1 ELSE 0
PipelineRunning == ctlPc = "dmaLoop"
ReadoutExited == rdPc \in { "done", "thrown" }
TasksTerminated == pushPc = "done" /\ ReadoutExited /\ monPc = "done"
BoundedRunEnded == ctlPc = "done" /\ ~mInfinitePages /\ ~sigInt
\* The push thread wrote the head of the card's queue to the readout queue
\* and has not popped it yet.
HandedOver(o) ==
  IF pushPc \in { "count", "pop" } /\ Len(hwQueue) > 0 /\ Head(hwQueue) = o
    THEN 1 ELSE 0

TypeOK ==
  /\ maxPages \in -1 .. MaxLoggedPages
  /\ generatorPattern \in GeneratorPattern
  /\ noErrorCheck \in BOOLEAN
  /\ mDmaLoopBreak \in BOOLEAN
  /\ sigInt \in BOOLEAN
  /\ freeQueue \in Seq(Offsets) /\ Len(freeQueue) <= QueueSize - 1
  /\ readoutQueue \in Seq(Offsets) /\ Len(readoutQueue) <= QueueSize - 1
  /\ hwQueue \in Seq(Offsets) /\ Len(hwQueue) <= ChannelQueueCapacity
  /\ hwSubmitted \in 0 .. Len(hwQueue)
  /\ received \in [Offsets -> 0 .. mSuperpageSize]
  /\ pushPc \in { "idle", "top", "feed", "push", "check", "write", "count", "pop", "done" }
  /\ superpage \in Offsets \cup { None }
  /\ mPushCount \in Nat
  /\ rdPc \in { "idle", "top", "read", "pages", "printToFile", "check",
                "resetPage", "advance", "free", "done", "thrown" }
  /\ offset \in Offsets \cup { None }
  /\ i \in 0 .. pagesPerSuperpage
  /\ exception \in { "none", "Unsupported pattern", "Something went horribly wrong",
                     "File output can't be both ASCII and binary",
                     "Invalid buffer size given", "Invalid buffer size argument",
                     "Invalid buffer size unit given",
                     "Buffer size smaller than superpage size",
                     "Failed to map buffer" }
  /\ mReadoutCount \in Nat
  /\ monPc \in { "idle", "loop", "tasks", "done" }
  /\ ctlPc \in { "options", "bufferSize", "checkSize", "buffer", "getMaster",
                 "resetChannel", "startDma", "launch",
                 "dmaLoop", "freeExcessPages", "stopDma", "done", "failed" }
  /\ popped \in Nat
  /\ fileOutputAscii \in BOOLEAN
  /\ fileOutputBin \in BOOLEAN
  /\ bufferSizeString \in Seq(BufferSizeChars)
  /\ superpageSizeMiB \in 1 .. MaxSuperpageSizeMiB
  /\ resetChannel \in BOOLEAN
  /\ hugePageSize \in { "none", "SIZE_2MB", "SIZE_1GB" }
  /\ bufferSizeMiB.wrapped \in BOOLEAN /\ bufferSizeMiB.mib \in Int
  /\ channelCalls \in Seq({ "getMaster", "resetChannel", "startDma", "stopDma" })
  /\ mCardType \in CardType \cup { "Unknown" }
  /\ noResyncCounter \in BOOLEAN
  /\ verbose \in BOOLEAN
  /\ mDataGeneratorCounter \in Int
  /\ mErrorCount \in Nat
  /\ errorLines \in 0 .. mErrorCount
  /\ checked.done \in BOOLEAN
  /\ lastWrite.ok \in BOOLEAN
  /\ pageReset \in BOOLEAN
  /\ Len(mReadoutStream) <= mReadoutCount
  /\ statusLine.readoutCount \in Int

(***************************************************************************)
(* C1 as stated: while the pipeline runs, every superpage offset is in     *)
(* exactly one of the free queue, the card's queue, the readout queue and  *)
(* the superpage being drained by the readout loop.                        *)
(***************************************************************************)
C1_Original ==
  PipelineRunning =>
    \A o \in Offsets :
      Count(freeQueue, o) + Count(hwQueue, o) + Count(readoutQueue, o)
        + Holds(offset, o) = 1

(***************************************************************************)
(* C1 amended: while the pipeline runs, every superpage offset is in       *)
(* exactly one of the free queue, the push thread's local superpage (read  *)
(* from the free queue, not pushed yet), the card's queue, the readout     *)
(* queue and the superpage held by the readout loop, where the head of the *)
(* card's queue no longer counts once the push thread has written it to    *)
(* the readout queue and is about to pop it.                               *)
(***************************************************************************)
C1_Partition ==
  PipelineRunning =>
    \A o \in Offsets :
      Count(freeQueue, o) + Holds(superpage, o)
        + (Count(hwQueue, o) - HandedOver(o))
        + Count(readoutQueue, o) + Holds(offset, o) = 1

\* The descriptor of an offset is still at the head of the card's queue
\* while the readout loop has already returned that offset to the free queue.
C1_Witness ==
  /\ PipelineRunning
  /\ pushPc = "pop"
  /\ Count(freeQueue, Head(hwQueue)) = 1

(***************************************************************************)
(* C2: with a positive page limit, no interrupt and a card that keeps      *)
(* filling the superpages it is given, the three tasks terminate and       *)
(* dmaLoop returns.  (Checked under FairSpec.)                             *)
(***************************************************************************)
C2_Terminates ==
  <>(mInfinitePages \/ sigInt \/ (TasksTerminated /\ ~PipelineRunning))

\* The same, for the runs in which readoutPage does not throw.
C2_TerminatesUnlessThrown ==
  <>(mInfinitePages \/ sigInt \/ readoutPageThrows
       \/ (TasksTerminated /\ ~PipelineRunning))

(***************************************************************************)
(* C3: when a run with a positive page limit N has ended without an        *)
(* interrupt, mReadoutCount equals N exactly.                              *)
(***************************************************************************)
C3_ExactCount == BoundedRunEnded => mReadoutCount = maxPages

\* What the readout loop does instead: it stops at the first multiple of
\* pagesPerSuperpage that is at least N.
C3_RoundedUpCount ==
  BoundedRunEnded =>
    /\ mReadoutCount >= maxPages
    /\ mReadoutCount < maxPages + pagesPerSuperpage
    /\ mReadoutCount % pagesPerSuperpage = 0

(***************************************************************************)
(* C4 as stated: when a run with a positive page limit has ended without   *)
(* an interrupt, the drain pass included, every superpage offset is on the *)
(* free queue.                                                             *)
(***************************************************************************)
C4_Original ==
  BoundedRunEnded => \A o \in Offsets : Count(freeQueue, o) = 1

(***************************************************************************)
(* C4 amended: when a run with a positive page limit has ended without an  *)
(* interrupt, the drain pass included, the readout queue is empty and      *)
(* neither the readout loop nor the push thread holds an offset; every     *)
(* offset is at most once on the free queue or in the card's queue, and    *)
(* the offsets that are in neither are the superpages the drain pass       *)
(* popped from the card's queue and dropped.                               *)
(***************************************************************************)
C4_EndOfRun ==
  BoundedRunEnded =>
    /\ readoutQueue = << >>
    /\ offset = None
    /\ superpage = None
    /\ \A o \in Offsets : Count(freeQueue, o) + Count(hwQueue, o) <= 1
    /\ (Len(freeQueue) + Len(hwQueue)) * pagesPerSuperpage + popped
         = maxSuperpages * pagesPerSuperpage

\* A bounded run has ended with a superpage that the drain pass popped and
\* dropped, so that the free queue does not hold every offset.
C4_Witness ==
  /\ BoundedRunEnded
  /\ popped > 0
  /\ Len(freeQueue) < maxSuperpages

(***************************************************************************)
(* C5: an offset is in the readout queue, or held by the readout loop,     *)
(* only if the card has filled its superpage: the received bytes of its    *)
(* descriptor are at least the superpage size.                             *)
(***************************************************************************)
C5_FilledBeforeRead ==
  \A o \in Offsets :
    (Count(readoutQueue, o) > 0 \/ offset = o) => isFilled(o)

\* The readout loop is in the middle of a superpage while the head of the
\* card's queue is not filled yet.
C5_Witness ==
  /\ rdPc = "pages"
  /\ i > 0
  /\ Len(hwQueue) > 0
  /\ ~isFilled(Head(hwQueue))

(***************************************************************************)
(* C6: the free queue grows only by the readout loop appending the offset  *)
(* it holds after all pages of that superpage were processed; and when the *)
(* readout loop exits with the stop flag set, it holds no offset.          *)
(***************************************************************************)
C6_DrainedBeforeFree ==
  [][ /\ Len(freeQueue') > Len(freeQueue) =>
           /\ rdPc = "free"
           /\ i = pagesPerSuperpage
           /\ freeQueue' = Append(freeQueue, offset)
      /\ (~ReadoutExited /\ ReadoutExited' /\ mDmaLoopBreak') =>
           offset' = None
    ]_vars

\* The same, with the exit through an exception of readoutPage left out.
C6_DrainedBeforeFreeUnlessThrown ==
  [][ /\ Len(freeQueue') > Len(freeQueue) =>
           /\ rdPc = "free"
           /\ i = pagesPerSuperpage
           /\ freeQueue' = Append(freeQueue, offset)
      /\ (~ReadoutExited /\ ReadoutExited' /\ offset' # None) =>
           /\ rdPc' = "thrown"
           /\ exception' = "Unsupported pattern"
    ]_vars

(***************************************************************************)
(* C7: whenever the readout loop writes a drained offset back, the free    *)
(* queue is not full, so "Something went horribly wrong" is never thrown.  *)
(***************************************************************************)
C7_FreeWriteSucceeds ==
  /\ rdPc = "free" => ~QueueIsFull(freeQueue)
  /\ exception # "Something went horribly wrong"

\* The write that fills the free queue to its last usable slot.
C7_Witness ==
  /\ rdPc = "free"
  /\ Len(freeQueue) = QueueSize - 2

(***************************************************************************)
(* C8: once an interrupt is raised while the pipeline runs, the stop flag  *)
(* is eventually set and the three tasks terminate, whatever the page      *)
(* limit and whatever the card does.  (Checked under TaskFairSpec.)        *)
(***************************************************************************)
C8_InterruptStops ==
  (sigInt /\ PipelineRunning) ~> (mDmaLoopBreak /\ TasksTerminated)

\* An unbounded run that was ended by an interrupt.
C8_Witness ==
  /\ mInfinitePages
  /\ sigInt
  /\ mDmaLoopBreak
  /\ TasksTerminated
  /\ mReadoutCount > 0

(***************************************************************************)
(* C9: in a run stopped by an interrupt, the readout queue is empty when   *)
(* the tasks have ended.                                                   *)
(***************************************************************************)
C9_ReadoutQueueDrained ==
  (sigInt /\ TasksTerminated /\ rdPc = "done") => readoutQueue = << >>

(***************************************************************************)
(* C10: the stop flag changes only from false to true, and only in the     *)
(* readout loop when the page limit is positive and mReadoutCount has      *)
(* reached it, or in lowPriorityTasks when a SIGINT was seen; with a page  *)
(* limit <= 0 and no SIGINT it stays false.                                *)
(***************************************************************************)
C10_StopFlag ==
  [][ /\ mDmaLoopBreak' # mDmaLoopBreak =>
           /\ ~mDmaLoopBreak /\ mDmaLoopBreak'
           /\ \/ /\ rdPc = "top" /\ rdPc' = "done"
                 /\ maxPages > 0 /\ mReadoutCount >= maxPages
              \/ /\ monPc = "tasks" /\ sigInt
      /\ (maxPages <= 0 /\ ~sigInt') => ~mDmaLoopBreak'
    ]_vars

\* The stop flag was set by the readout loop at the page limit.
C10_Witness ==
  /\ mDmaLoopBreak
  /\ ~sigInt
  /\ rdPc = "done"
  /\ maxPages > 0
  /\ mReadoutCount >= maxPages

(***************************************************************************)
(* C11: offsets leave each queue in the order they entered it.  A step     *)
(* changes the readout queue only by adding the descriptor at the head of  *)
(* the card's queue at the back, or by handing its oldest offset to the    *)
(* readout loop; it changes the free queue only by adding the offset the   *)
(* readout loop returns at the back, or by handing its oldest offset to    *)
(* the push thread; and what the push thread took is what it pushes to the *)
(* card next.                                                              *)
(***************************************************************************)
C11_Fifo ==
  [][ /\ readoutQueue' # readoutQueue =>
           \/ /\ hwQueue # << >>
              /\ readoutQueue' = Append(readoutQueue, Head(hwQueue))
           \/ /\ readoutQueue # << >>
              /\ readoutQueue' = Tail(readoutQueue)
              /\ offset' = Head(readoutQueue)
      /\ freeQueue' # freeQueue =>
           \/ freeQueue' = Append(freeQueue, offset)
           \/ /\ freeQueue # << >>
              /\ freeQueue' = Tail(freeQueue)
              /\ superpage' = Head(freeQueue)
      /\ Len(hwQueue') > Len(hwQueue) =>
           superpage # None /\ hwQueue' = Append(hwQueue, superpage)
    ]_vars

\* The readout loop holds one superpage while another waits behind it in
\* the readout queue, and the push thread holds an offset it took from the
\* free queue at some time.
C11_Witness ==
  /\ rdPc = "pages"
  /\ offset # None
  /\ Len(readoutQueue) >= 1
  /\ mPushCount > mSuperpageSize

(***************************************************************************)
(* C13 as stated: with pattern Random and error checking enabled the run   *)
(* fails and ends.  Once readoutPage has thrown, run() is left.            *)
(***************************************************************************)
C13_FailsAndEnds ==
  (exception = "Unsupported pattern") ~> (ctlPc = "failed")

(***************************************************************************)
(* C12: a queue made with capacity K = maxSuperpages + 1 never holds more  *)
(* than K offsets, and a write to a full queue returns false and leaves    *)
(* the offsets in the queue and their order as they were.                  *)
(***************************************************************************)
C12_Capacity ==
  /\ Len(freeQueue) <= maxSuperpages + 1
  /\ Len(readoutQueue) <= maxSuperpages + 1
  /\ lastWrite.queue = "free" /\ QueueIsFull(lastWrite.before) =>
       ~lastWrite.ok /\ freeQueue = lastWrite.before
  /\ lastWrite.queue = "readout" /\ QueueIsFull(lastWrite.before) =>
       ~lastWrite.ok /\ readoutQueue = lastWrite.before

\* A write was made to a full readout queue.
C12_Witness ==
  /\ lastWrite.queue = "readout"
  /\ QueueIsFull(lastWrite.before)
  /\ lastWrite.value # lastWrite.before[Len(lastWrite.before)]

(***************************************************************************)
(* The reference for the buffer size option: "<v>MB" gives 2 MiB hugepages *)
(* and max(2, v) MiB rounded down to an even number, "<v>GB" gives 1 GiB   *)
(* hugepages and v GiB; anything else is rejected.                         *)
(***************************************************************************)
RefValue(s) == SubSeq(s, 1, Len(s) - 2)
RefSuffix(s) == SubSeq(s, Len(s) - 1, Len(s))
RefNumeric(v) == v # << >> /\ \A k \in 1 .. Len(v) : IsDigit(v[k])
RefRejects(s) ==
  \/ Len(s) < 3
  \/ ~RefNumeric(RefValue(s))
  \/ RefSuffix(s) \notin { << "M", "B" >>, << "G", "B" >> }
RefHugePageSize(s) ==
  IF RefSuffix(s) = << "M", "B" >> THEN "SIZE_2MB" ELSE "SIZE_1GB"
RefBufferMiB(s) ==
  LET v == Decimal(RefValue(s))
      m == IF v > 2 THEN v ELSE 2
  IN IF RefSuffix(s) = << "M", "B" >> THEN 2 * (m \div 2) ELSE 1024 * v

ParseErrors ==
  { "Invalid buffer size given", "Invalid buffer size argument",
    "Invalid buffer size unit given" }
BothDumpModes == fileOutputAscii /\ fileOutputBin
BufferSizeParsed == ~BothDumpModes /\ ctlPc \notin { "options", "bufferSize" }
BeforeChannel ==
  ctlPc \in { "options", "bufferSize", "checkSize", "buffer", "getMaster" }

(***************************************************************************)
(* C14 as stated: when both dump modes are set, or the buffer size string  *)
(* is malformed or has an unknown unit, or the buffer is smaller than the  *)
(* superpage, run() never gets to the channel: no getMaster, resetChannel  *)
(* or startDma is made and no thread is started, and once the checks are   *)
(* passed run() has been left with an exception.                           *)
(***************************************************************************)
C14_ConfigError ==
  \/ BothDumpModes
  \/ RefRejects(bufferSizeString)
  \/ RefBufferMiB(bufferSizeString) < superpageSizeMiB

C14_FailsBeforeChannel ==
  C14_ConfigError =>
    /\ channelCalls = << >>
    /\ mCardType = "Unknown"
    /\ pushPc = "idle" /\ rdPc = "idle" /\ monPc = "idle"
    /\ BeforeChannel \/ (ctlPc = "failed" /\ exception # "none")

\* The same for the strings that hold no sign: it holds.
C14_FailsBeforeChannelUnsigned ==
  (\A k \in 1 .. Len(bufferSizeString) : bufferSizeString[k] # "-") =>
    C14_FailsBeforeChannel

(***************************************************************************)
(* C15 as stated: for every input string, the buffer size parsing gives    *)
(* what the reference gives: the same rejection, or the same hugepage size *)
(* and the same buffer size.                                               *)
(***************************************************************************)
C15_MatchesReference ==
  BufferSizeParsed =>
    IF RefRejects(bufferSizeString)
      THEN ctlPc = "failed" /\ exception \in ParseErrors
      ELSE /\ exception \notin ParseErrors
           /\ hugePageSize = RefHugePageSize(bufferSizeString)
           /\ bufferSizeMiB = MiB(RefBufferMiB(bufferSizeString))

\* The same for the strings that hold no sign: it holds.
C15_MatchesReferenceUnsigned ==
  (\A k \in 1 .. Len(bufferSizeString) : bufferSizeString[k] # "-") =>
    C15_MatchesReference

(***************************************************************************)
(* What the claims about the verifier say of a page, stated on the page    *)
(* readoutPage was called on last and the counter it was checked with.     *)
(***************************************************************************)
\* counter * 256 + idx / 8 modulo 2^32, as a pair of 16-bit halves.
RefCruWord(counter, idx) ==
  LET low == ((counter % 256) * 256) + (idx \div 8)
  IN << ((counter \div 256) + (low \div 65536)) % 65536, low % 65536 >>

\* The counter a page's leading word gives: the word for the C-RORC, the
\* word divided by 256 for the CRU.
RefDerivedCounter(pg) ==
  IF mCardType = "Crorc" THEN (pg[0][1] * 65536) + pg[0][2]
  ELSE (pg[0][1] * 256) + (pg[0][2] \div 256)

PageVerified == checked.done /\ ~checked.thrown /\ ~noErrorCheck
ErrorsAdded == mErrorCount - checked.errorsBefore
LinesAdded == errorLines - checked.linesBefore
CruIncrementalVerified ==
  PageVerified /\ mCardType = "Cru" /\ generatorPattern = "Incremental"
WrongStrideWords ==
  { idx \in 0 .. PageSize32 - 1 :
      idx % 8 = 0 /\ page[idx] # RefCruWord(checked.counter, idx) }

C17_AtMostOnePerPage ==
  PageVerified => ErrorsAdded <= 1 /\ LinesAdded <= 1

(***************************************************************************)
(* C17, amended: a CRU page raises the error count by at most one and adds *)
(* at most one line.  A C-RORC page raises it by at most two and adds at   *)
(* most two lines: one for a header word that differs from the counter,    *)
(* which does not end the check of the page, and one for the first data    *)
(* word that differs from the pattern.                                     *)
(***************************************************************************)
C17_HeaderWrong == page[0] # U32(checked.counter)
C17_AtMostOnePlusHeader ==
  PageVerified =>
    /\ LinesAdded <= ErrorsAdded
    /\ mCardType = "Cru" => ErrorsAdded <= 1
    /\ mCardType = "Crorc" =>
         /\ ErrorsAdded <= 2
         /\ ErrorsAdded = 2 => C17_HeaderWrong /\ checked.hasError
         /\ ~C17_HeaderWrong => ErrorsAdded <= 1

\* A C-RORC page with a wrong header and a wrong data word gave two lines.
C17_Witness ==
  /\ PageVerified
  /\ mCardType = "Crorc"
  /\ ErrorsAdded = 2
  /\ LinesAdded = 2

(***************************************************************************)
(* C18 as stated: with resync enabled, whenever a page raised the error    *)
(* count, the counter expected for the next page is the counter derived    *)
(* from that page's leading word, plus one.                                *)
(***************************************************************************)
C18_ResyncOnMismatch ==
  PageVerified /\ ~noResyncCounter /\ ErrorsAdded > 0 =>
    mDataGeneratorCounter = RefDerivedCounter(page) + 1

\* The same for the CRU alone: it holds.
C18_ResyncOnMismatchCru ==
  mCardType = "Cru" => C18_ResyncOnMismatch

(***************************************************************************)
(* C19: with resync disabled and error checking enabled, the counter the   *)
(* k-th page is verified with is the counter derived from the first page   *)
(* plus k, and so is the counter kept for the page after it, whatever the  *)
(* pages held.                                                             *)
(***************************************************************************)
C19_ArithmeticContinuation ==
  PageVerified /\ noResyncCounter =>
    /\ checked.eventNumber = 0 => checked.seed = RefDerivedCounter(page)
    /\ checked.counter = checked.seed + checked.eventNumber
    /\ mDataGeneratorCounter = checked.seed + mReadoutCount

\* A second page was verified after a mismatch on the first, and its own
\* leading word would have given another counter.
C19_Witness ==
  /\ PageVerified
  /\ noResyncCounter
  /\ checked.eventNumber = 1
  /\ checked.errorsBefore > 0
  /\ RefDerivedCounter(page) # checked.counter
  /\ ErrorsAdded > 0

(***************************************************************************)
(* C20: the error log never holds more than MAX_RECORDED_ERRORS lines,     *)
(* and the error count goes up by one for every mismatch found, also       *)
(* after the log stopped growing.  (In the run checked, every page has a   *)
(* wrong data word; a C-RORC page whose header differs from the counter    *)
(* has a second mismatch.)                                                 *)
(***************************************************************************)
C20_LogCapped ==
  /\ errorLines <= MAX_RECORDED_ERRORS
  /\ PageVerified =>
       ErrorsAdded =
         1 + (IF mCardType = "Crorc" /\ page[0] # U32(checked.counter)
                THEN 1 ELSE 0)

\* The log stopped growing and the count went on.
C20_Witness ==
  /\ verbose
  /\ mErrorCount > MAX_RECORDED_ERRORS
  /\ errorLines = MAX_RECORDED_ERRORS - 1
  /\ LinesAdded = 0
  /\ ErrorsAdded > 0

(***************************************************************************)
(* C24: while the pipeline runs, the head descriptor leaves the card's     *)
(* queue only from the push thread's pop step, which is reached only with  *)
(* a filled head whose offset was appended to the readout queue; the push  *)
(* count changes only between that write and the pop; and a write that     *)
(* finds the readout queue full leaves the card's queue, the readout queue *)
(* and the push count as they were and sends the thread back to the top of *)
(* its loop.                                                               *)
(***************************************************************************)
C24_PopAfterHandOver ==
  [][ PipelineRunning =>
        /\ pushPc \in {"write", "count", "pop"} =>
             /\ hwQueue # << >>
             /\ isFilled(Head(hwQueue))
        /\ (pushPc = "write" /\ pushPc' # "write") =>
             IF QueueIsFull(readoutQueue)
               THEN /\ pushPc' = "top"
                    /\ UNCHANGED << hwQueue, readoutQueue, mPushCount >>
               ELSE /\ pushPc' = "count"
                    /\ readoutQueue' = Append(readoutQueue, Head(hwQueue))
                    /\ UNCHANGED << hwQueue, mPushCount >>
        /\ pushPc' = "count" => pushPc \in {"write", "count"}
        /\ pushPc' = "pop" => pushPc \in {"count", "pop"}
        /\ mPushCount' # mPushCount =>
             /\ pushPc = "count" /\ pushPc' = "pop"
             /\ mPushCount' = mPushCount + pagesPerSuperpage
        /\ Len(hwQueue') < Len(hwQueue) =>
             /\ pushPc = "pop"
             /\ hwQueue' = Tail(hwQueue) ]_vars

\* The write of the push thread always finds room: the readout queue holds
\* maxSuperpages offsets and the head of the card's queue is not among them.
ReadoutWriteHasRoom ==
  (PipelineRunning /\ pushPc = "write") => ~QueueIsFull(readoutQueue)

\* The push thread is about to pop a filled head it has handed over, with
\* another descriptor behind it.
C24_Witness ==
  /\ PipelineRunning
  /\ pushPc = "pop"
  /\ Len(hwQueue) > 1
  /\ isFilled(Head(hwQueue))

(***************************************************************************)
(* C25: an offset leaves the free queue only in a step of the push thread  *)
(* taken while the card reports a free slot, the thread then holds that    *)
(* offset and pushes it next; the thread holds an offset only in that      *)
(* position, the slot is still free when it pushes, and the card's queue   *)
(* never holds more descriptors than it has slots.                         *)
(***************************************************************************)
C25_FeedOnlyWithSlot ==
  [][ PipelineRunning =>
        /\ Len(freeQueue') < Len(freeQueue) =>
             /\ getSuperpageQueueAvailable > 0
             /\ pushPc = "feed" /\ pushPc' = "push"
             /\ superpage' = Head(freeQueue)
             /\ freeQueue' = Tail(freeQueue)
        /\ (superpage # None) <=> (pushPc = "push")
        /\ pushPc = "push" =>
             /\ getSuperpageQueueAvailable > 0
             /\ (pushPc' # "push" =>
                   /\ hwQueue' = Append(hwQueue, superpage)
                   /\ superpage' = None)
        /\ Len(hwQueue) <= ChannelQueueCapacity ]_vars

\* The feed loop stops at a full card queue with offsets left in the free
\* queue.
C25_Witness ==
  /\ PipelineRunning
  /\ pushPc = "check"
  /\ getSuperpageQueueAvailable = 0
  /\ ~QueueIsEmpty(freeQueue)
  /\ mPushCount > 0

(***************************************************************************)
(* C27: the card's queue never holds two descriptors of one offset, and    *)
(* the offset the push thread is about to push has no descriptor in it.    *)
(***************************************************************************)
C27_NoDoublePush ==
  /\ \A o \in Offsets : Count(hwQueue, o) <= 1
  /\ pushPc = "push" => Count(hwQueue, superpage) = 0

\* An offset that went round once is about to be pushed again while the
\* card's queue holds other descriptors.
C27_Witness ==
  /\ PipelineRunning
  /\ pushPc = "push"
  /\ superpage = indexToOffset(0)
  /\ mPushCount > 0
  /\ Len(hwQueue) > 0

(***************************************************************************)
(* C28: at every instant the readout count is at most the push count.      *)
(***************************************************************************)
C28_ReadoutAtMostPush ==
  mReadoutCount <= mPushCount

\* The same once the push thread is between two hand-overs: the pages of a
\* superpage may be counted as read out before mPushCount.fetch_add runs.
C28_ReadoutAtMostPushSettled ==
  (PipelineRunning /\ pushPc # "count") => mReadoutCount <= mPushCount

StopDmaCalls == Count(channelCalls, "stopDma")
RunLeft == ctlPc \in { "done", "failed" }

C22_OrderedSteps ==
  [][ /\ channelCalls[Len(channelCalls)] = "startDma" <=>
           ctlPc \in { "dmaLoop", "freeExcessPages", "stopDma", "failed" }
      /\ ctlPc \in { "freeExcessPages", "stopDma", "done", "failed" } =>
           TasksTerminated
      /\ ctlPc' = "freeExcessPages" => ctlPc \in { "dmaLoop", "freeExcessPages" }
      /\ ctlPc' = "stopDma" => ctlPc \in { "freeExcessPages", "stopDma" }
      /\ ctlPc' = "done" => ctlPc \in { "stopDma", "done" }
      /\ StopDmaCalls' # StopDmaCalls =>
           /\ ctlPc = "stopDma" /\ ctlPc' = "done"
           /\ StopDmaCalls = 0 /\ StopDmaCalls' = 1
           /\ TasksTerminated
      /\ ctlPc = "done" => StopDmaCalls = 1 ]_vars

\* C22 as stated: in addition, a run that was started and left has called
\* stopDma, exactly once.
C22_StopDmaOnce ==
  RunLeft => StopDmaCalls = 1

\* stopDma was called with a filled and an unfilled superpage left in the
\* card's queue.
StopDmaWithSuperpagesLeft ==
  /\ ctlPc = "done"
  /\ \E k \in 1 .. Len(hwQueue) : isFilled(hwQueue[k])
  /\ \E k \in 1 .. Len(hwQueue) : ~isFilled(hwQueue[k])

(***************************************************************************)
(* C21: with a supported pattern, the error check of a page, whatever it   *)
(* finds, goes on to the rest of readoutPage: it throws nothing and leaves *)
(* the stop flag alone (only a SIGINT seen by the low priority thread sets *)
(* it here); the readout loop never ends in an exception, and when it is   *)
(* through with the superpage it has counted all its pages and put its     *)
(* offset at the back of the free queue.                                   *)
(***************************************************************************)
C21_MismatchNotFatal ==
  [][ (generatorPattern \in SupportedPattern) =>
        /\ (rdPc = "check" /\ rdPc' # "check") =>
             /\ rdPc' = "resetPage"
             /\ exception' = "none"
             /\ mDmaLoopBreak' = mDmaLoopBreak
        /\ mDmaLoopBreak' # mDmaLoopBreak => (sigInt /\ monPc = "tasks")
        /\ rdPc # "thrown" /\ exception = "none"
        /\ rdPc = "top" =>
             /\ mReadoutCount = pagesPerSuperpage
             /\ offset = None
             /\ freeQueue # << >>
             /\ indexToOffset(0) = freeQueue[Len(freeQueue)]
  ]_vars

\* Both pages of the superpage had a mismatch, the offset is back in the free
\* queue and the stop flag is not set.
C21_Witness ==
  /\ generatorPattern \in SupportedPattern
  /\ mCardType = "Cru"
  /\ mErrorCount = pagesPerSuperpage
  /\ rdPc = "top"
  /\ freeQueue[Len(freeQueue)] = indexToOffset(0)
  /\ ~mDmaLoopBreak

(***************************************************************************)
(* C23: the low priority thread never reads mErrorCount for the status     *)
(* line at a moment at which the readout loop is about to write it.        *)
(***************************************************************************)
ReadsErrorCount == monPc = "tasks" /\ ~sigInt /\ verbose /\ ~noErrorCheck
WritesErrorCount == rdPc = "check" /\ ErrorCheck.st.mErrorCount # mErrorCount

C23_NoUnsynchronisedAccess ==
  ~(ReadsErrorCount /\ WritesErrorCount)

(***************************************************************************)
(* C26 as stated: a page is written to the dump file only after its        *)
(* verification, if error checking is enabled.                             *)
(***************************************************************************)
PageChecked == noErrorCheck \/ (checked.done /\ checked.eventNumber = readoutCount)
PageDumped ==
  (fileOutputAscii \/ fileOutputBin) => Len(mReadoutStream) = mReadoutCount
Stamped == [idx \in 0 .. pageSize32 - 1 |-> BUFFER_DEFAULT_VALUE]

C26_DumpAfterVerification ==
  [][ mReadoutStream' # mReadoutStream => PageChecked ]_vars

(***************************************************************************)
(* C26 amended: for every page the readout loop advances mReadoutCount,    *)
(* then dumps the page, then verifies it, then stamps it, then advances    *)
(* the generator counter: the page is dumped unverified and unstamped, it  *)
(* is verified after its dump, and it is stamped after both.               *)
(***************************************************************************)
C26_StepOrder ==
  [][ /\ mReadoutCount' # mReadoutCount =>
           /\ rdPc = "pages" /\ rdPc' = "printToFile"
           /\ mReadoutCount' = mReadoutCount + 1
      /\ mReadoutStream' # mReadoutStream =>
           /\ rdPc = "printToFile" /\ rdPc' = "check"
           /\ noErrorCheck \/ checked.eventNumber # readoutCount
           /\ mReadoutStream'[Len(mReadoutStream')].words = page
           /\ page \in StreamPages
           /\ PageDumped'
      /\ checked' # checked =>
           /\ rdPc = "check" /\ rdPc' \in { "resetPage", "thrown" }
           /\ PageDumped
           /\ page \in StreamPages
      /\ (page' # page /\ rdPc # "pages") =>
           /\ rdPc = "resetPage" /\ rdPc' = "advance"
           /\ pageReset /\ page' = Stamped
           /\ PageChecked /\ PageDumped
      /\ rdPc' = "advance" => rdPc \in { "resetPage", "advance" }
      /\ rdPc = "advance" =>
           /\ PageChecked /\ PageDumped
           /\ pageReset => page = Stamped
           /\ rdPc' # "advance" =>
                /\ mDataGeneratorCounter' = mDataGeneratorCounter + 1
                /\ rdPc' \in { "pages", "free" } ]_vars

\* A page with a mismatch was dumped, verified and stamped, and the dump
\* holds the words the card wrote.
C26_Witness ==
  /\ rdPc = "advance"
  /\ fileOutputAscii /\ pageReset /\ ~noErrorCheck
  /\ checked.hasError
  /\ checked.eventNumber = readoutCount
  /\ Len(mReadoutStream) = mReadoutCount
  /\ mReadoutStream[Len(mReadoutStream)].event = readoutCount
  /\ mReadoutStream[Len(mReadoutStream)].words # page
  /\ page = Stamped

(***************************************************************************)
(* C30: after a run the error log holds min(error count,                   *)
(* MAX_RECORDED_ERRORS) lines, verbose or not.                             *)
(***************************************************************************)
C30_LogHoldsMin ==
  mReadoutCount = maxPages =>
    errorLines = (IF mErrorCount < MAX_RECORDED_ERRORS THEN mErrorCount
                  ELSE MAX_RECORDED_ERRORS)

\* What the log holds: nothing unless verbose, and then a line for each of
\* the first MAX_RECORDED_ERRORS - 1 mismatches.
LogHoldsVerboseMin ==
  errorLines = (IF ~verbose THEN 0
                ELSE IF mErrorCount < MAX_RECORDED_ERRORS THEN mErrorCount
                ELSE MAX_RECORDED_ERRORS - 1)

====
